---------------------------- MODULE Spec2Model ----------------------------
(***************************************************************************)
(* Model of two cores of the braiins-open repository:                      *)
(*   - the PROXY protocol acceptor (protocols/wire/src/proxy.rs), and      *)
(*   - the cooperative halt supervisor                                     *)
(*     (utils-rs/async-utils/src/halthandle.rs).                           *)
(* Bytes are naturals 0..255, byte buffers are sequences of bytes.         *)
(***************************************************************************)
EXTENDS Integers, Sequences, FiniteSets, TLC

VARIABLES
    \* ---- PROXY acceptor (proxy.rs) ----
    inp,              \* the inbound byte stream: [h |-> header, p |-> payload]
    pos,              \* number of bytes already read from the transport
    entry,            \* "auto" | "v1" | "v2": the accept_* method that runs
    require,          \* Acceptor.require_proxy_header
    pc,               \* "prefix" | "framed" | "ok" | "err"
    buf,              \* BytesMut read buffer; ProxyStream.buf once pc = "ok"
    codec,            \* "none" | "v1" | "v2": the codec of the Framed
    readable,         \* FramedRead is_readable
    eof,              \* FramedRead eof / read_buf returned 0
    orig_source,      \* ProxyStream.orig_source
    orig_destination, \* ProxyStream.orig_destination
    errKind,          \* "" | "required" | "terminated" | "io"
    iofail,           \* the transport has reported an I/O error
    origin,           \* how the Acceptor was made: "default" | "setter" | "builder"
    versions,         \* ProtocolConfig.versions of the AcceptorBuilder
    protocol_version, \* Connector.protocol_version
    original_source,  \* write_proxy_header's original_source argument
    original_destination, \* write_proxy_header's original_destination argument
    wpc,              \* write_proxy_header: "idle" | "call" | "Ok" | "Err"
    written,          \* the bytes the destination stream has taken
    unwrapped,        \* what try_into_inner returned: "none" | "Ok" | "InvalidState"
    converted,        \* the conversion that consumed the ProxyStream, or "none"
    framed_parts,     \* the framed form it produced: its io and its read_buf
    \* ---- HaltHandle (halthandle.rs) ----
    kind,             \* task -> what the spawned future does
    tstate,           \* task -> "unspawned" | "running" | "done" | "panicked"
    tw,               \* task -> its Tripwire: "none" | "unused" (a future that never polls
                      \* it) | "fresh" (unpolled) | "late" (unpolled, cloned after
                      \* halt()) | "pending" | "resolved" | "observed" (a late one
                      \* that resolved on its first poll)
    rxVersion,        \* task -> the version its watch::Receiver has seen
    sent,             \* every TaskMsg the channel accepted, in send order
    rxAlive,          \* the Tasks receiver has not been dropped
    readyCalls,       \* number of ready() calls
    haltCalls,        \* number of halt() calls
    haltSome,         \* HaltHandle.halt holds Some(Halt)
    cellValue,        \* value of the watch channel
    cellVersion,      \* version of the watch channel
    senderAlive,      \* the watch::Sender (the Trigger) has not been dropped
    fireCount,        \* number of Trigger::cancel sends
    permit,           \* notify_join holds a permit
    notifyCount,      \* number of notify_one() calls
    tasksSome,        \* HaltHandle.tasks holds Some(Tasks)
    jpc,              \* join(): "idle" | "collect" | "returned"
    jtimeout,         \* join()'s timeout argument: "none" | "some"
    jhead,            \* number of messages join() has received
    jres,             \* the fold's accumulator: 0 = Ok(()), t = Err(Join) of task t
    jnotified,        \* notify_join.notified() has completed
    jresult,          \* what join() returned: "none" | "Ok" | "Timeout" | "Join"
    joinPanics,       \* number of join() calls that panicked
    signal_task_spawned, \* HaltHandle.signal_task_spawned
    signalCalls,      \* number of handle_signal() / halt_on_signal() calls
    sigTasks,         \* number of signal-listening tasks spawned (closures built)
    sigpc,            \* the signal task: "none" | "listening" | "done"
    \* ---- Tripwire values held outside the supervised tasks (halthandle.rs)
    receiver,         \* Tripwire.receiver: "absent" (no such value) | "Some" | "None"
    wait_for_halt_future, \* Tripwire.wait_for_halt_future is Some
    twSeen,           \* version seen by the receiver inside the future
    polled,           \* result of the last poll: "none" | "Pending" | "Ready"
    polls,            \* number of polls made
    cloned_from,      \* the Tripwire it was cloned from, 0 for the original
    \* ---- the keytool and its files (keytool.rs)
    files,            \* the file system: path -> content
    commands,         \* number of keytool commands run
    kcmd,             \* the last command: its name and its file arguments
    kresult,          \* what its execute() returned: "none" | "Ok" | "Err"
    \* ---- two ServerSecurityBundle values and their Debug output (formats.rs)
    bundle,           \* the two bundles
    now,              \* SystemTime::now, in seconds
    expiry_rule,      \* how verify_expiration treats the ends of the validity
    debug_out,        \* format!("{:?}", bundle[i]), as the fields written
    debug_at          \* the time of that call, -1 before it

hvars == <<kind, tstate, tw, rxVersion, sent, rxAlive,
           readyCalls, haltCalls, haltSome, cellValue, cellVersion,
           senderAlive, fireCount, permit, notifyCount, tasksSome, jpc, jtimeout,
           jhead, jres, jnotified, jresult>>

pvars == <<inp, pos, entry, require, pc, buf, codec, readable, eof,
           orig_source, orig_destination, errKind, iofail>>

tvars == <<receiver, wait_for_halt_future, twSeen, polled, polls, cloned_from>>

kvars == <<files, commands, kcmd, kresult>>

fvars == <<bundle, now, expiry_rule, debug_out, debug_at>>

yvars == <<tvars, kvars, fvars>>

xvars == <<joinPanics, signal_task_spawned, signalCalls, sigTasks, sigpc, yvars>>

cvars == <<origin, versions, protocol_version, original_source,
           original_destination, wpc, written, unwrapped, converted, framed_parts>>

vars == <<pvars, hvars, xvars, cvars>>

-----------------------------------------------------------------------------
(* Byte strings used by the code and by the inputs.                        *)

\* b"PROXY "
V1_TAG == <<80,82,79,88,89,32>>
\* codec::v2::SIGNATURE, b"\r\n\r\n\0\r\nQUIT\n"
V2_TAG == <<13,10,13,10,0,13,10,81,85,73,84,10>>
COMMON_HEADER_PREFIX_LEN == 5
\* maximum length of a v1 header line, including the CR LF
V1_MAX_LENGTH == 107
\* length of the fixed part of a v2 header
V2_FIXED_LEN == 16

CRLF == <<13,10>>
TCP4 == <<84,67,80,52>>
TCP6 == <<84,67,80,54>>
UNKNOWN == <<85,78,75,78,79,87,78>>

NoAddr == [fam |-> "none", ip |-> <<>>, port |-> 0]
Addr4(a, b, c, d, port) == [fam |-> "v4", ip |-> <<a, b, c, d>>, port |-> port]
Addr6(groups, port) == [fam |-> "v6", ip |-> groups, port |-> port]

Take(s, n) == SubSeq(s, 1, IF n < Len(s) THEN n ELSE Len(s))
Drop(s, n) == SubSeq(s, n + 1, Len(s))
StartsWith(s, p) == Len(s) >= Len(p) /\ SubSeq(s, 1, Len(p)) = p

-----------------------------------------------------------------------------
(* Text parsing helpers of the v1 codec.                                   *)

IsDigit(b) == b \in 48..57
IsHex(b) == b \in 48..57 \/ b \in 65..70 \/ b \in 97..102
HexVal(b) == IF b \in 48..57 THEN b - 48 ELSE IF b \in 65..70 THEN b - 55 ELSE b - 87

RECURSIVE DecVal(_)
DecVal(s) == IF s = <<>> THEN 0 ELSE 10 * DecVal(SubSeq(s, 1, Len(s) - 1)) + (s[Len(s)] - 48)

RECURSIVE HexSeqVal(_)
HexSeqVal(s) == IF s = <<>> THEN 0 ELSE 16 * HexSeqVal(SubSeq(s, 1, Len(s) - 1)) + HexVal(s[Len(s)])

\* value of a decimal field not above max, or -1
ParseNum(s, max) ==
    IF s = <<>> \/ Len(s) > 5 \/ \E i \in 1..Len(s) : ~IsDigit(s[i]) THEN -1
    ELSE IF DecVal(s) > max THEN -1 ELSE DecVal(s)

\* value of a group of 1..4 hex digits, or -1
ParseHex(s) ==
    IF s = <<>> \/ Len(s) > 4 \/ \E i \in 1..Len(s) : ~IsHex(s[i]) THEN -1
    ELSE HexSeqVal(s)

\* the fields of s separated by the byte sep
RECURSIVE Split(_, _)
Split(s, sep) ==
    IF \A i \in 1..Len(s) : s[i] # sep THEN <<s>>
    ELSE LET i == CHOOSE j \in 1..Len(s) : s[j] = sep /\ \A k \in 1..(j - 1) : s[k] # sep
         IN  <<SubSeq(s, 1, i - 1)>> \o Split(Drop(s, i), sep)

\* dotted-quad text to four octets, or <<>>
ParseIPv4(s) ==
    LET parts == Split(s, 46)
    IN  IF Len(parts) # 4 \/ \E i \in 1..4 : ParseNum(parts[i], 255) < 0 THEN <<>>
        ELSE [i \in 1..4 |-> ParseNum(parts[i], 255)]

\* colon-separated hex groups, <<>> for the empty text, <<-1>> when malformed
ParseGroups(s) ==
    IF s = <<>> THEN <<>>
    ELSE LET parts == Split(s, 58)
         IN  IF \E i \in 1..Len(parts) : ParseHex(parts[i]) < 0 THEN <<-1>>
             ELSE [i \in 1..Len(parts) |-> ParseHex(parts[i])]

\* IPv6 text (with at most one "::") to eight groups, or <<>>
ParseIPv6(s) ==
    LET gaps == {i \in 1..(Len(s) - 1) : s[i] = 58 /\ s[i + 1] = 58}
    IN  IF gaps = {} THEN
            LET g == ParseGroups(s)
            IN  IF Len(g) = 8 THEN g ELSE <<>>
        ELSE IF Cardinality(gaps) > 1 THEN <<>>
        ELSE LET i == CHOOSE j \in gaps : TRUE
                 l == ParseGroups(SubSeq(s, 1, i - 1))
                 r == ParseGroups(Drop(s, i + 1))
             IN  IF l = <<-1>> \/ r = <<-1>> \/ Len(l) + Len(r) > 7 THEN <<>>
                 ELSE l \o [k \in 1..(8 - Len(l) - Len(r)) |-> 0] \o r

\* index of the first CR LF of s, or 0
CRLFIndex(s) ==
    LET hits == {i \in 1..(Len(s) - 1) : s[i] = 13 /\ s[i + 1] = 10}
    IN  IF hits = {} THEN 0 ELSE CHOOSE i \in hits : \A j \in hits : i <= j

-----------------------------------------------------------------------------
(* Decoder results: "none" = need more bytes (Ok(None)), "ok" = a frame    *)
(* (Ok(Some(info))) with rest the buffer left behind, "err" = Err(_).      *)

DecNone(b) == [tag |-> "none", src |-> NoAddr, dst |-> NoAddr, rest |-> b]
DecErr(b) == [tag |-> "err", src |-> NoAddr, dst |-> NoAddr, rest |-> b]
DecOk(s, d, b) == [tag |-> "ok", src |-> s, dst |-> d, rest |-> b]

\* the part of a v1 line after "PROXY "
V1ParseLine(body, rest) ==
    LET f == Split(body, 32)
    IN  IF StartsWith(body, UNKNOWN) THEN DecOk(NoAddr, NoAddr, rest)
        ELSE IF Len(f) # 5 THEN DecErr(rest)
        ELSE IF f[1] = TCP4 THEN
            LET s == ParseIPv4(f[2])
                d == ParseIPv4(f[3])
                sp == ParseNum(f[4], 65535)
                dp == ParseNum(f[5], 65535)
            IN  IF s = <<>> \/ d = <<>> \/ sp < 0 \/ dp < 0 THEN DecErr(rest)
                ELSE DecOk([fam |-> "v4", ip |-> s, port |-> sp],
                           [fam |-> "v4", ip |-> d, port |-> dp], rest)
        ELSE IF f[1] = TCP6 THEN
            LET s == ParseIPv6(f[2])
                d == ParseIPv6(f[3])
                sp == ParseNum(f[4], 65535)
                dp == ParseNum(f[5], 65535)
            IN  IF s = <<>> \/ d = <<>> \/ sp < 0 \/ dp < 0 THEN DecErr(rest)
                ELSE DecOk([fam |-> "v6", ip |-> s, port |-> sp],
                           [fam |-> "v6", ip |-> d, port |-> dp], rest)
        ELSE DecErr(rest)

\* V1Codec::decode
V1Decode(b) ==
    LET i == CRLFIndex(b)
    IN  IF i = 0 THEN (IF Len(b) >= V1_MAX_LENGTH THEN DecErr(b) ELSE DecNone(b))
        ELSE IF i + 1 > V1_MAX_LENGTH THEN DecErr(b)
        ELSE IF ~StartsWith(b, V1_TAG) THEN DecErr(b)
        ELSE LET r == V1ParseLine(SubSeq(b, Len(V1_TAG) + 1, i - 1), Drop(b, i + 1))
             IN  IF r.tag = "err" THEN DecErr(b) ELSE r

\* the address block of a v2 header: command, family and transport nibbles, block
V2ParseBlock(cmd, fam, tr, blk, rest) ==
    IF cmd = 0 \/ fam = 0 \/ tr = 0 \/ fam = 3 THEN DecOk(NoAddr, NoAddr, rest)
    ELSE IF fam = 1 THEN
        IF Len(blk) < 12 THEN DecErr(rest)
        ELSE DecOk([fam |-> "v4", ip |-> SubSeq(blk, 1, 4), port |-> blk[9] * 256 + blk[10]],
                   [fam |-> "v4", ip |-> SubSeq(blk, 5, 8), port |-> blk[11] * 256 + blk[12]],
                   rest)
    ELSE
        IF Len(blk) < 36 THEN DecErr(rest)
        ELSE DecOk([fam |-> "v6",
                    ip |-> [k \in 1..8 |-> blk[2 * k - 1] * 256 + blk[2 * k]],
                    port |-> blk[33] * 256 + blk[34]],
                   [fam |-> "v6",
                    ip |-> [k \in 1..8 |-> blk[16 + 2 * k - 1] * 256 + blk[16 + 2 * k]],
                    port |-> blk[35] * 256 + blk[36]],
                   rest)

\* V2Codec::decode
V2Decode(b) ==
    IF Len(b) < V2_FIXED_LEN THEN DecNone(b)
    ELSE IF ~StartsWith(b, V2_TAG) THEN DecErr(b)
    ELSE LET ver == b[13] \div 16
             cmd == b[13] % 16
             fam == b[14] \div 16
             tr == b[14] % 16
             len == b[15] * 256 + b[16]
         IN  IF ver # 2 \/ cmd > 1 \/ fam > 3 \/ tr > 2 THEN DecErr(b)
             ELSE IF Len(b) < V2_FIXED_LEN + len THEN DecNone(b)
             ELSE LET r == V2ParseBlock(cmd, fam, tr,
                                        SubSeq(b, V2_FIXED_LEN + 1, V2_FIXED_LEN + len),
                                        Drop(b, V2_FIXED_LEN + len))
                  IN  IF r.tag = "err" THEN DecErr(b) ELSE r

Decode(c, b) == IF c = "v1" THEN V1Decode(b) ELSE V2Decode(b)

-----------------------------------------------------------------------------
(* Inbound streams.  A stream is a header h followed by a payload p; h is  *)
(* <<>> for a stream that carries no valid PROXY header.                   *)

\* "PROXY TCP4 1.2.3.4 5.6.7.8 9 10\r\n"
HdrV1Tcp4 == <<80,82,79,88,89,32,84,67,80,52,32,49,46,50,46,51,46,52,32,53,46,54,46,55,46,56,32,57,32,49,48,13,10>>
\* "PROXY TCP4 192.168.0.1 192.168.0.11 56324 443\r\n"
HdrV1Test == <<80,82,79,88,89,32,84,67,80,52,32,49,57,50,46,49,54,56,46,48,46,49,32,49,57,50,46,49,54,56,46,48,46,49,49,32,53,54,51,50,52,32,52,52,51,13,10>>
\* "PROXY TCP6 ::1 2:3::4 9 10\r\n"
HdrV1Tcp6 == <<80,82,79,88,89,32,84,67,80,54,32,58,58,49,32,50,58,51,58,58,52,32,57,32,49,48,13,10>>
\* "PROXY UNKNOWN\r\n"
HdrV1Unknown == <<80,82,79,88,89,32,85,78,75,78,79,87,78,13,10>>
\* "PROXY UNKNOWN x y\r\n"
HdrV1UnknownText == <<80,82,79,88,89,32,85,78,75,78,79,87,78,32,120,32,121,13,10>>
\* v2 PROXY, INET/STREAM, 192.168.0.1:56324 -> 192.168.0.11:443
HdrV2Tcp4 == V2_TAG \o <<33,17,0,12, 192,168,0,1, 192,168,0,11, 220,4, 1,187>>
\* the same with a three-byte TLV tail inside the declared length
HdrV2Tcp4Tlv == V2_TAG \o <<33,17,0,15, 192,168,0,1, 192,168,0,11, 220,4, 1,187, 4,0,0>>
\* v2 LOCAL with an empty address block
HdrV2Local == V2_TAG \o <<32,0,0,0>>
\* v2 PROXY, INET6/STREAM, [::1]:9 -> [2:3::4]:10
HdrV2Tcp6 == V2_TAG \o <<33,33,0,36, 0,0,0,0,0,0,0,0,0,0,0,0,0,0,0,1,
                         0,2,0,3,0,0,0,0,0,0,0,0,0,0,0,4, 0,9, 0,10>>

Headers == {HdrV1Tcp4, HdrV1Test, HdrV1Tcp6, HdrV1Unknown, HdrV1UnknownText,
            HdrV2Tcp4, HdrV2Tcp4Tlv, HdrV2Local, HdrV2Tcp6}

\* "", "A", "HELLO", "\r\nX", and a payload that is itself a v1 header
Payloads == {<<>>, <<65>>, <<72,69,76,76,79>>, <<13,10,88>>, HdrV1Unknown \o <<65>>}

\* streams without a header: "MEMAM PROXY HEADER, CHUDACEK JA", "NIC\r\n", "",
\* "PROX", "PROXZ TCP4", and four bytes of the v2 signature
NoHeader == {<<77,69,77,65,77,32,80,82,79,88,89,32,72,69,65,68,69,82,44,32,67,72,85,68,65,67,69,75,32,74,65>>,
             <<78,73,67,13,10>>, <<>>, <<80,82,79,88>>, <<80,82,79,88,90,32,84,67,80,52>>,
             <<13,10,13,10>>}

\* streams whose prefix matches a tag but whose header is malformed or cut:
\* "PROXY TCP5 1.2.3.4 5.6.7.8 9 10\r\nA", "PROXY TCP4 1.2.3.400 5.6.7.8 9 10\r\n",
\* "PROXY TCP4 1.2.3.4", a v2 header of version 1, a v2 header cut in its block,
\* "PROXY TCP4 1.2.3.4 ::1 9 10\r\n" (endpoints of two families)
Malformed == {<<80,82,79,88,89,32,84,67,80,53,32,49,46,50,46,51,46,52,32,53,46,54,46,55,46,56,32,57,32,49,48,13,10,65>>,
              <<80,82,79,88,89,32,84,67,80,52,32,49,46,50,46,51,46,52,48,48,32,53,46,54,46,55,46,56,32,57,32,49,48,13,10>>,
              <<80,82,79,88,89,32,84,67,80,52,32,49,46,50,46,51,46,52>>,
              V2_TAG \o <<17,17,0,12, 192,168,0,1, 192,168,0,11, 220,4, 1,187>>,
              V2_TAG \o <<33,17,0,12, 192,168,0,1>>,
              <<80,82,79,88,89,32,84,67,80,52,32,49,46,50,46,51,46,52,32,58,58,49,32,57,32,49,48,13,10>>}

Inputs == {[h |-> hh, p |-> pp] : hh \in Headers, pp \in Payloads}
          \cup {[h |-> <<>>, p |-> x] : x \in NoHeader \cup Malformed}

Data == inp.h \o inp.p
Unread == Drop(Data, pos)
HdrVersion(hh) == IF StartsWith(hh, V1_TAG) THEN "v1" ELSE "v2"

-----------------------------------------------------------------------------
(* The acceptor.                                                           *)

\* what an accept_* future resolves to
AcceptErr(e, b) == [tag |-> "err", buf |-> b, src |-> NoAddr, dst |-> NoAddr, err |-> e]
AcceptOk(b, s, d) == [tag |-> "ok", buf |-> b, src |-> s, dst |-> d, err |-> ""]

\* variant: the buffered bytes are not handed to the ProxyStream
TryFromStreamEmptyBuf(req, b) ==
    IF req THEN AcceptErr("required", b) ELSE AcceptOk(<<>>, NoAddr, NoAddr)

\* variant: require_proxy_header is not consulted
TryFromStreamNoCheck(req, b) == AcceptOk(b, NoAddr, NoAddr)

\* Acceptor::try_from_stream_to_proxy_stream
TryFromStream(req, b) ==
    IF req THEN AcceptErr("required", b) ELSE AcceptOk(b, NoAddr, NoAddr)

\* Acceptor::default(): the require_proxy_header of a fresh Acceptor
AcceptorDefault == [require_proxy_header |-> FALSE]

\* Acceptor::require_proxy_header(self, value)
RequireProxyHeader(acceptor, value) == [acceptor EXCEPT !.require_proxy_header = value]

\* variant: the Framed starts from an empty buffer, read_buf is forgotten
FramedReadBufDropped(read_buf) == <<>>

\* the read buffer of the Framed that accept_with_codec builds from read_buf
FramedReadBuf(read_buf) == read_buf

\* variant: the decoder's error is returned to the caller
AcceptWithCodecPropagate(req, r) ==
    IF r.tag = "ok" THEN AcceptOk(r.rest, r.src, r.dst) ELSE AcceptErr("decode", r.rest)

\* variant: only the source of the decoded ProxyInfo is stored
AcceptWithCodecSourceOnly(req, r) ==
    IF r.tag = "ok" THEN AcceptOk(r.rest, r.src, NoAddr) ELSE TryFromStream(req, r.rest)

\* accept_with_codec, the match on the item framed.next() produced
AcceptWithCodecResult(req, r) ==
    IF r.tag = "ok" THEN AcceptOk(r.rest, r.src, r.dst) ELSE TryFromStream(req, r.rest)

\* variant: decode_eof is decode, a cut header at EOF is "no frame"
DecodeEofPlain(c, b) == Decode(c, b)

\* Decoder::decode_eof (the provided method): an undecodable rest is an error
DecodeEof(c, b) ==
    LET r == Decode(c, b)
    IN  IF r.tag = "none" /\ b # <<>> THEN DecErr(b) ELSE r

\* the accept future resolves with res
Resolve(res) ==
    /\ pc' = res.tag
    /\ buf' = res.buf
    /\ orig_source' = res.src
    /\ orig_destination' = res.dst
    /\ errKind' = res.err

\* accept_auto: one stream.read_buf() of the prefix loop
AutoRead ==
    /\ pc = "prefix" /\ Len(buf) < COMMON_HEADER_PREFIX_LEN /\ ~eof
    /\ \/ /\ pos < Len(Data)
          /\ \E k \in 1..(Len(Data) - pos) :
                /\ buf' = buf \o SubSeq(Data, pos + 1, pos + k)
                /\ pos' = pos + k
          /\ UNCHANGED eof
       \/ /\ pos = Len(Data)
          /\ eof' = TRUE
          /\ UNCHANGED <<buf, pos>>
    /\ UNCHANGED <<inp, entry, require, pc, codec, readable, orig_source,
                   orig_destination, errKind, iofail>>
    /\ UNCHANGED <<hvars, xvars, cvars>>

\* accept_auto: read_buf() fails and `?` returns the I/O error
AutoIoError ==
    /\ pc = "prefix" /\ Len(buf) < COMMON_HEADER_PREFIX_LEN /\ ~eof
    /\ iofail' = TRUE
    /\ Resolve(AcceptErr("io", buf))
    /\ UNCHANGED <<inp, pos, entry, require, codec, readable, eof>>
    /\ UNCHANGED <<hvars, xvars, cvars>>

\* variant: the prefix loop gives up after the first read that brought bytes
AutoDispatchOneRead ==
    /\ pc = "prefix" /\ (Len(buf) >= 1 \/ eof)
    /\ IF Len(buf) < COMMON_HEADER_PREFIX_LEN
       THEN Resolve(TryFromStream(require, buf)) /\ UNCHANGED <<codec, readable, eof>>
       ELSE IF Take(buf, COMMON_HEADER_PREFIX_LEN) = Take(V1_TAG, COMMON_HEADER_PREFIX_LEN)
       THEN /\ codec' = "v1" /\ pc' = "framed"
            /\ buf' = FramedReadBuf(buf) /\ readable' = (Len(buf') > 0) /\ eof' = FALSE
            /\ UNCHANGED <<orig_source, orig_destination, errKind>>
       ELSE IF Take(buf, COMMON_HEADER_PREFIX_LEN) = Take(V2_TAG, COMMON_HEADER_PREFIX_LEN)
       THEN /\ codec' = "v2" /\ pc' = "framed"
            /\ buf' = FramedReadBuf(buf) /\ readable' = (Len(buf') > 0) /\ eof' = FALSE
            /\ UNCHANGED <<orig_source, orig_destination, errKind>>
       ELSE Resolve(TryFromStream(require, buf)) /\ UNCHANGED <<codec, readable, eof>>
    /\ UNCHANGED <<inp, pos, entry, require, iofail>>
    /\ UNCHANGED <<hvars, xvars, cvars>>

\* accept_auto after the prefix loop: fall through or pick the codec
AutoDispatch ==
    /\ pc = "prefix" /\ (Len(buf) >= COMMON_HEADER_PREFIX_LEN \/ eof)
    /\ IF Len(buf) < COMMON_HEADER_PREFIX_LEN
       THEN Resolve(TryFromStream(require, buf)) /\ UNCHANGED <<codec, readable, eof>>
       ELSE IF Take(buf, COMMON_HEADER_PREFIX_LEN) = Take(V1_TAG, COMMON_HEADER_PREFIX_LEN)
       THEN /\ codec' = "v1" /\ pc' = "framed"
            /\ buf' = FramedReadBuf(buf) /\ readable' = (Len(buf') > 0) /\ eof' = FALSE
            /\ UNCHANGED <<orig_source, orig_destination, errKind>>
       ELSE IF Take(buf, COMMON_HEADER_PREFIX_LEN) = Take(V2_TAG, COMMON_HEADER_PREFIX_LEN)
       THEN /\ codec' = "v2" /\ pc' = "framed"
            /\ buf' = FramedReadBuf(buf) /\ readable' = (Len(buf') > 0) /\ eof' = FALSE
            /\ UNCHANGED <<orig_source, orig_destination, errKind>>
       ELSE Resolve(TryFromStream(require, buf)) /\ UNCHANGED <<codec, readable, eof>>
    /\ UNCHANGED <<inp, pos, entry, require, iofail>>
    /\ UNCHANGED <<hvars, xvars, cvars>>

\* accept_with_codec: framed.next() runs the decoder on the buffer
FramedDecode ==
    /\ pc = "framed" /\ readable
    /\ LET r == IF eof THEN DecodeEof(codec, buf) ELSE Decode(codec, buf)
       IN  IF r.tag = "none"
           THEN IF eof
                THEN Resolve(AcceptErr("terminated", buf)) /\ UNCHANGED readable
                ELSE readable' = FALSE
                     /\ UNCHANGED <<pc, buf, orig_source, orig_destination, errKind>>
           ELSE Resolve(AcceptWithCodecResult(require, r)) /\ UNCHANGED readable
    /\ UNCHANGED <<inp, pos, entry, require, codec, eof, iofail>>
    /\ UNCHANGED <<hvars, xvars, cvars>>

\* accept_with_codec: framed.next() reads more bytes from the transport
FramedRead ==
    /\ pc = "framed" /\ ~readable /\ ~eof
    /\ \/ /\ pos < Len(Data)
          /\ \E k \in 1..(Len(Data) - pos) :
                /\ buf' = buf \o SubSeq(Data, pos + 1, pos + k)
                /\ pos' = pos + k
          /\ UNCHANGED eof
       \/ /\ pos = Len(Data)
          /\ eof' = TRUE
          /\ UNCHANGED <<buf, pos>>
    /\ readable' = TRUE
    /\ UNCHANGED <<inp, entry, require, pc, codec, orig_source, orig_destination,
                   errKind, iofail>>
    /\ UNCHANGED <<hvars, xvars, cvars>>

\* accept_with_codec: the read inside framed.next() fails; the item is Err(io)
FramedIoError ==
    /\ pc = "framed" /\ ~readable /\ ~eof
    /\ iofail' = TRUE
    /\ Resolve(AcceptWithCodecResult(require, DecErr(buf)))
    /\ UNCHANGED <<inp, pos, entry, require, codec, readable, eof>>
    /\ UNCHANGED <<hvars, xvars, cvars>>

\* variant: the carry is not inspected before the transport is handed out
TryIntoInnerUnchecked(b) == "Ok"

\* ProxyStream::try_into_inner on a ProxyStream whose carry is b
TryIntoInnerResult(b) == IF b = <<>> THEN "Ok" ELSE "InvalidState"

\* the owner of an accepted ProxyStream calls try_into_inner; the call
\* consumes the ProxyStream
TryIntoInner ==
    /\ pc = "ok" /\ unwrapped = "none" /\ converted = "none"
    /\ unwrapped' = TryIntoInnerResult(buf)
    /\ UNCHANGED <<origin, versions, protocol_version, original_source,
                   original_destination, wpc, written, converted, framed_parts>>
    /\ UNCHANGED <<pvars, hvars, xvars>>

\* no framed form exists yet
NoParts == [io |-> <<>>, read_buf |-> <<>>]

\* the conversions of a ProxyStream into a framed form
Conversions == {"into_framed_parts", "FramedParts", "Framed", "Connection"}

\* Framed::from_parts of tokio-util: the Framed owns the parts' io and starts
\* from the parts' read buffer
FramedFromParts(p) == p

\* ProxyStream::into_framed_parts
IntoFramedParts(inner, b) == [io |-> inner, read_buf |-> b]

\* From<ProxyStream<TcpStream>> for FramedParts<TcpStream, C>
FramedPartsFrom(inner, b) == [io |-> inner, read_buf |-> b]

\* From<ProxyStream<TcpStream>> for Framed<TcpStream, C>
FramedFrom(inner, b) == FramedFromParts(FramedPartsFrom(inner, b))

\* variant: the existing read buffer is not passed on
ConnectionFromFresh(inner, b) == FramedFromParts([io |-> inner, read_buf |-> <<>>])

\* From<ProxyStream<TcpStream>> for Connection<F>
ConnectionFrom(inner, b) == FramedFromParts([io |-> inner, read_buf |-> b])

\* the owner of an accepted ProxyStream converts it into a framed form; the
\* transport is handed over as it is, with the bytes it has yet to deliver
IntoFramed ==
    /\ pc = "ok" /\ unwrapped = "none" /\ converted = "none"
    /\ \E k \in Conversions :
          /\ converted' = k
          /\ framed_parts' = CASE k = "into_framed_parts" -> IntoFramedParts(Unread, buf)
                               [] k = "FramedParts" -> FramedPartsFrom(Unread, buf)
                               [] k = "Framed" -> FramedFrom(Unread, buf)
                               [] k = "Connection" -> ConnectionFrom(Unread, buf)
    /\ UNCHANGED <<origin, versions, protocol_version, original_source,
                   original_destination, wpc, written, unwrapped>>
    /\ UNCHANGED <<pvars, hvars, xvars>>

\* bound: the longest ProtocolConfig.versions list
MaxVersions == 2

ProtocolVersion == {"V1", "V2"}

\* ProtocolConfig::new
ProtocolConfig(require_proxy_header, vs) ==
    [require_proxy_header |-> require_proxy_header, versions |-> vs]

VersionLists == UNION {[1..n -> ProtocolVersion] : n \in 0..MaxVersions}

\* variant: the hardcoded auto-detect build method
BuilderNewAlwaysAuto(config) == "auto"

\* variant: the consistency assertion is missing
BuilderNewNoAssert(config) ==
    IF Len(config.versions) = 0 THEN "skip"
    ELSE IF Len(config.versions) = 1 /\ config.require_proxy_header
    THEN (IF config.versions[1] = "V1" THEN "v1" ELSE "v2")
    ELSE "auto"

\* AcceptorBuilder::new, the build method it selects: "skip" = build_skip,
\* "auto" = build_auto, "v1" = build_v1, "v2" = build_v2, "panic" = the
\* assertion failed and no builder exists
BuilderNew(config) ==
    IF Len(config.versions) = 0
    THEN (IF ~config.require_proxy_header THEN "skip" ELSE "panic")
    ELSE IF Len(config.versions) = 1
    THEN IF config.require_proxy_header
         THEN (IF config.versions[1] = "V1" THEN "v1" ELSE "v2")
         ELSE "auto"
    ELSE "auto"

\* variant: build_skip detects like build_auto with no header required, on
\* what one read brings
BuildSkipDetect ==
    /\ pc = "skip"
    /\ \E k \in 0..Len(Data) :
        /\ pos' = k
        /\ LET r == Decode(IF StartsWith(Take(Data, k), V2_TAG) THEN "v2" ELSE "v1",
                           Take(Data, k))
           IN  Resolve(AcceptWithCodecResult(FALSE, r))
    /\ UNCHANGED <<inp, entry, require, codec, readable, eof, iofail>>
    /\ UNCHANGED <<hvars, xvars, cvars>>

\* build_skip: the future resolves to the stream wrapped, nothing is read
BuildSkip ==
    /\ pc = "skip"
    /\ Resolve(AcceptOk(<<>>, NoAddr, NoAddr))
    /\ UNCHANGED <<inp, pos, entry, require, codec, readable, eof, iofail>>
    /\ UNCHANGED <<hvars, xvars, cvars>>

\* no Connector call is in progress
ConnectorIdle ==
    /\ protocol_version = "V1"
    /\ original_source = NoAddr
    /\ original_destination = NoAddr
    /\ wpc = "idle"
    /\ written = <<>>
    /\ unwrapped = "none"
    /\ converted = "none"
    /\ framed_parts = NoParts

-----------------------------------------------------------------------------
(* The connector.  ProxyInfo and the encoders of the two codecs.           *)

\* decimal text of n, no leading zeros
RECURSIVE DecText(_)
DecText(n) == IF n < 10 THEN <<48 + n>> ELSE DecText(n \div 10) \o <<48 + (n % 10)>>

\* lowercase hexadecimal text of n, no leading zeros
RECURSIVE HexText(_)
HexText(n) ==
    LET d == n % 16
        c == IF d < 10 THEN 48 + d ELSE 87 + d
    IN  IF n < 16 THEN <<c>> ELSE HexText(n \div 16) \o <<c>>

\* the texts of parts joined by the byte sep
RECURSIVE Join(_, _)
Join(parts, sep) ==
    IF parts = <<>> THEN <<>>
    ELSE IF Len(parts) = 1 THEN parts[1]
    ELSE parts[1] \o <<sep>> \o Join(Tail(parts), sep)

\* Display of an Ipv4Addr
Ipv4Text(ip) == Join([i \in 1..4 |-> DecText(ip[i])], 46)

\* Display of an Ipv6Addr that embeds no IPv4 address: the first longest run
\* of two or more zero groups is written "::"
Ipv6Text(g) ==
    LET runs == {r \in (1..8) \X (2..8) :
                    /\ r[1] + r[2] - 1 <= 8
                    /\ \A k \in r[1]..(r[1] + r[2] - 1) : g[k] = 0}
        hex(a, b) == Join([i \in 1..(b - a + 1) |-> HexText(g[a + i - 1])], 58)
    IN  IF runs = {} THEN hex(1, 8)
        ELSE LET best == CHOOSE r \in runs : \A q \in runs :
                            r[2] > q[2] \/ (r[2] = q[2] /\ r[1] <= q[1])
             IN  hex(1, best[1] - 1) \o <<58, 58>> \o hex(best[1] + best[2], 8)

IpText(e) == IF e.fam = "v4" THEN Ipv4Text(e.ip) ELSE Ipv6Text(e.ip)

\* the address bytes of an endpoint in network order
IpBytes(e) ==
    IF e.fam = "v4" THEN e.ip
    ELSE [i \in 1..16 |-> IF i % 2 = 1 THEN e.ip[(i + 1) \div 2] \div 256
                                         ELSE e.ip[i \div 2] % 256]

PortBytes(e) == <<e.port \div 256, e.port % 256>>

\* both endpoints absent, or both present with the same address family
WellFormed(src, dst) ==
    \/ src = NoAddr /\ dst = NoAddr
    \/ src # NoAddr /\ dst # NoAddr /\ src.fam = dst.fam

\* ProxyInfo::try_from((Option<SocketAddr>, Option<SocketAddr>))
ProxyInfoTryFrom(src, dst) ==
    IF WellFormed(src, dst)
    THEN [ok |-> TRUE, original_source |-> src, original_destination |-> dst]
    ELSE [ok |-> FALSE, original_source |-> NoAddr, original_destination |-> NoAddr]

\* WithProxyInfo::proxy_info of a stream whose original_peer_addr and
\* original_destination_addr are src and dst
ProxyInfoOf(src, dst) == ProxyInfoTryFrom(src, dst)

\* V1Codec::encode
V1Encode(info) ==
    IF info.original_source = NoAddr THEN V1_TAG \o UNKNOWN \o CRLF
    ELSE V1_TAG
         \o (IF info.original_source.fam = "v4" THEN TCP4 ELSE TCP6)
         \o <<32>> \o IpText(info.original_source)
         \o <<32>> \o IpText(info.original_destination)
         \o <<32>> \o DecText(info.original_source.port)
         \o <<32>> \o DecText(info.original_destination.port)
         \o CRLF

\* V2Codec::encode
V2Encode(info) ==
    IF info.original_source = NoAddr THEN V2_TAG \o <<32, 0, 0, 0>>
    ELSE LET block == IpBytes(info.original_source) \o IpBytes(info.original_destination)
                      \o PortBytes(info.original_source)
                      \o PortBytes(info.original_destination)
         IN  V2_TAG
             \o <<33, IF info.original_source.fam = "v4" THEN 17 ELSE 33,
                  Len(block) \div 256, Len(block) % 256>>
             \o block

\* variant: the endpoints are encoded without the ProxyInfo conversion, an
\* ill-formed pair is written as absent endpoints
HeaderDataNoCheck(version, src, dst) ==
    LET info == IF WellFormed(src, dst)
                THEN [original_source |-> src, original_destination |-> dst]
                ELSE [original_source |-> NoAddr, original_destination |-> NoAddr]
    IN  [ok |-> TRUE, data |-> IF version = "V1" THEN V1Encode(info) ELSE V2Encode(info)]

\* write_proxy_header up to the write: try_into()? and the encode by version
HeaderData(version, src, dst) ==
    LET proxy_info == ProxyInfoTryFrom(src, dst)
    IN  IF ~proxy_info.ok THEN [ok |-> FALSE, data |-> <<>>]
        ELSE [ok |-> TRUE,
              data |-> IF version = "V1" THEN V1Encode(proxy_info)
                                         ELSE V2Encode(proxy_info)]

\* Connector::write_proxy_header.  dest.write(&data) is one write call: the
\* destination takes the first n bytes, for some n it chooses, or fails.
WriteProxyHeader ==
    /\ wpc = "call"
    /\ LET h == HeaderData(protocol_version, original_source, original_destination)
       IN  IF ~h.ok
           THEN wpc' = "Err" /\ UNCHANGED written
           ELSE \/ \E n \in 0..Len(h.data) :
                      /\ written' = written \o Take(h.data, n)
                      /\ wpc' = "Ok"
                \/ wpc' = "IoErr" /\ UNCHANGED written
    /\ UNCHANGED <<origin, versions, protocol_version, original_source,
                   original_destination, unwrapped, converted, framed_parts>>
    /\ UNCHANGED <<pvars, hvars, xvars>>

\* the peer accepts the connection with the acceptor of the connector's
\* version (accept_v1 / accept_v2); its transport delivers the written bytes
AcceptWritten ==
    /\ wpc = "Ok" /\ pc = "idle"
    /\ inp' = [h |-> <<>>, p |-> written]
    /\ entry' = IF protocol_version = "V1" THEN "v1" ELSE "v2"
    /\ codec' = entry'
    /\ pc' = "framed"
    /\ UNCHANGED <<pos, require, buf, readable, eof, orig_source, orig_destination,
                   errKind, iofail>>
    /\ UNCHANGED <<hvars, xvars, cvars>>

\* 127.0.0.1:1111, 192.168.0.11:443, [::1]:9, [2:3::4]:65535
Endpoints == {Addr4(127, 0, 0, 1, 1111), Addr4(192, 168, 0, 11, 443),
              Addr6(<<0, 0, 0, 0, 0, 0, 0, 1>>, 9),
              Addr6(<<2, 3, 0, 0, 0, 0, 0, 4>>, 65535)}

\* Connector::new(version) and the arguments of one write_proxy_header call
InitConnectorVars ==
    /\ protocol_version \in ProtocolVersion
    /\ original_source \in Endpoints \cup {NoAddr}
    /\ original_destination \in Endpoints \cup {NoAddr}
    /\ wpc = "call"
    /\ written = <<>>
    /\ unwrapped = "none"
    /\ converted = "none"
    /\ framed_parts = NoParts
    /\ origin = "setter"
    /\ versions = <<>>
    /\ require \in BOOLEAN
    /\ inp = [h |-> <<>>, p |-> <<>>]
    /\ entry = "auto"
    /\ pos = 0
    /\ buf = <<>>
    /\ pc = "idle"
    /\ codec = "none"
    /\ readable = FALSE
    /\ eof = FALSE
    /\ orig_source = NoAddr
    /\ orig_destination = NoAddr
    /\ errKind = ""
    /\ iofail = FALSE

\* an Acceptor straight from Acceptor::new() / Acceptor::default(), as in
\* ProxyStream::new, or one whose require_proxy_header setter was called
InitProxyVars ==
    /\ inp \in Inputs
    /\ entry \in {"auto", "v1", "v2"}
    /\ origin \in {"default", "setter"}
    /\ versions = <<>>
    /\ require \in IF origin = "default"
                   THEN {AcceptorDefault.require_proxy_header}
                   ELSE {RequireProxyHeader(AcceptorDefault, v).require_proxy_header :
                            v \in BOOLEAN}
    /\ ConnectorIdle
    /\ pos = 0
    /\ buf = <<>>
    /\ pc = IF entry = "auto" THEN "prefix" ELSE "framed"
    /\ codec = IF entry = "auto" THEN "none" ELSE entry
    /\ readable = FALSE
    /\ eof = FALSE
    /\ orig_source = NoAddr
    /\ orig_destination = NoAddr
    /\ errKind = ""
    /\ iofail = FALSE

\* AcceptorBuilder::new(config) followed by build(stream); build_auto,
\* build_v1 and build_v2 pass config.require_proxy_header to the setter
InitBuilderVars ==
    /\ inp \in Inputs
    /\ origin = "builder"
    /\ versions \in VersionLists
    /\ require \in {RequireProxyHeader(AcceptorDefault, v).require_proxy_header :
                        v \in BOOLEAN}
    /\ entry = BuilderNew(ProtocolConfig(require, versions))
    /\ ConnectorIdle
    /\ pos = 0
    /\ buf = <<>>
    /\ pc = CASE entry = "panic" -> "panicked"
               [] entry = "skip" -> "skip"
               [] entry = "auto" -> "prefix"
               [] OTHER -> "framed"
    /\ codec = IF entry \in {"v1", "v2"} THEN entry ELSE "none"
    /\ readable = FALSE
    /\ eof = FALSE
    /\ orig_source = NoAddr
    /\ orig_destination = NoAddr
    /\ errKind = ""
    /\ iofail = FALSE

NextProxyVars ==
    \/ AutoRead
    \/ AutoIoError
    \/ AutoDispatch
    \/ FramedDecode
    \/ FramedRead
    \/ FramedIoError
    \/ TryIntoInner
    \/ IntoFramed

\* the acceptor before any stream is handed to it
ProxyIdle ==
    /\ inp = [h |-> <<>>, p |-> <<>>]
    /\ entry = "auto"
    /\ origin = "default"
    /\ versions = <<>>
    /\ require = AcceptorDefault.require_proxy_header
    /\ ConnectorIdle
    /\ pos = 0
    /\ buf = <<>>
    /\ pc = "idle"
    /\ codec = "none"
    /\ readable = FALSE
    /\ eof = FALSE
    /\ orig_source = NoAddr
    /\ orig_destination = NoAddr
    /\ errKind = ""
    /\ iofail = FALSE

-----------------------------------------------------------------------------
(* The halt supervisor.  Tasks are numbered in spawn order.  A task's kind *)
(* says what its future does:                                              *)
(*   "tripwire" awaits its Tripwire and returns (test forever_stream),     *)
(*   "natural"  ignores the Tripwire and returns by itself,                *)
(*   "forever"  ignores the Tripwire and never returns,                    *)
(*   "panic"    panics,                                                    *)
(*   "halter"   calls halt() on the shared handle and returns.             *)

MaxTasks == 2
MaxReady == 1
MaxHaltCalls == 1
MaxRejoin == 1
MaxSignalCalls == 2

TaskIds == 1..MaxTasks
Kinds == {"tripwire", "natural", "forever", "panic", "halter"}
Cooperative == {"tripwire", "natural", "halter"}
Stoppable == {"tripwire"}

TaskMsg(t) == [type |-> "Task", h |-> t]
ReadyMsg == [type |-> "Ready", h |-> 0]
Unpolled == {"fresh", "late"}

Spawned == {t \in TaskIds : tstate[t] # "unspawned"}
Terminated(t) == tstate[t] \in {"done", "panicked"}

\* mpsc::UnboundedSender::send: the message is queued unless the receiver is gone
ChannelSend(q, alive, msg) == IF alive THEN Append(q, msg) ELSE q

\* Tripwire::clone of the handle's tripwire: the clone's receiver copies the
\* version the template has seen, and the template is never polled
CloneVersion(cellVer) == 0

\* variant: changed() does not report a dropped sender
TripwirePollOpen(fresh, seen, value, version, alive) ==
    [ready |-> seen # version /\ value, seen |-> version]

\* variant: the first poll only registers for the next change and is Pending
TripwirePollLost(fresh, seen, value, version, alive) ==
    IF fresh THEN [ready |-> FALSE, seen |-> version]
    ELSE [ready |-> (seen # version /\ value) \/ ~alive, seen |-> version]

\* variant: the loop of wait_for_halt leaves on the first value it sees,
\* whatever the value
TripwirePollAnyValue(fresh, seen, value, version, alive) ==
    [ready |-> fresh \/ seen # version \/ ~alive, seen |-> version]

\* Tripwire::poll with wait_for_halt: changed() is Ok when the version moved,
\* Err when the sender is gone; the loop leaves on a true value, and the
\* Tripwire is Ready on either outcome
TripwirePoll(fresh, seen, value, version, alive) ==
    [ready |-> (seen # version /\ value) \/ ~alive, seen |-> version]

\* variant: the result of send() is unwrapped, so spawn() panics before
\* returning once the receiver is gone
SpawnOfUnwrap(K) ==
    /\ rxAlive
    /\ \E t \in TaskIds, k \in K :
        /\ tstate[t] = "unspawned"
        /\ \A u \in TaskIds : u < t => tstate[u] # "unspawned"
        /\ kind' = [kind EXCEPT ![t] = k]
        /\ tstate' = [tstate EXCEPT ![t] = "running"]
        /\ tw' = [tw EXCEPT ![t] = IF k # "tripwire" THEN "unused"
                                   ELSE IF haltSome THEN "fresh" ELSE "late"]
        /\ rxVersion' = [rxVersion EXCEPT ![t] = CloneVersion(cellVersion)]
        /\ sent' = ChannelSend(sent, rxAlive, TaskMsg(t))
    /\ UNCHANGED <<rxAlive, readyCalls, haltCalls, haltSome,
                   cellValue, cellVersion, senderAlive, fireCount, permit,
                   notifyCount, tasksSome, jpc, jtimeout, jhead, jres,
                   jnotified, jresult>>
    /\ UNCHANGED <<pvars, xvars, cvars>>

\* HaltHandle::spawn of a future whose kind is in K: the task gets a clone of
\* the handle's Tripwire, is started by tokio::spawn, and add_task sends its
\* JoinHandle (a send error is ignored)
SpawnOf(K) ==
    /\ \E t \in TaskIds, k \in K :
        /\ tstate[t] = "unspawned"
        /\ \A u \in TaskIds : u < t => tstate[u] # "unspawned"
        /\ kind' = [kind EXCEPT ![t] = k]
        /\ tstate' = [tstate EXCEPT ![t] = "running"]
        /\ tw' = [tw EXCEPT ![t] = IF k # "tripwire" THEN "unused"
                                   ELSE IF haltSome THEN "fresh" ELSE "late"]
        /\ rxVersion' = [rxVersion EXCEPT ![t] = CloneVersion(cellVersion)]
        /\ sent' = ChannelSend(sent, rxAlive, TaskMsg(t))
    /\ UNCHANGED <<rxAlive, readyCalls, haltCalls, haltSome,
                   cellValue, cellVersion, senderAlive, fireCount, permit,
                   notifyCount, tasksSome, jpc, jtimeout, jhead, jres,
                   jnotified, jresult>>
    /\ UNCHANGED <<pvars, xvars, cvars>>

\* spawn of any future
Spawn == SpawnOf(Kinds)

\* spawn of a future that returns by itself or once its Tripwire resolves
SpawnCooperative == SpawnOf(Cooperative)

\* spawn of a future that awaits its Tripwire (forever_stream)
SpawnStoppable == SpawnOf(Stoppable)

\* the futures of test halthandle_timeout: one never returns, one awaits its Tripwire
Timed == {"forever", "tripwire"}
SpawnTimed == SpawnOf(Timed)

\* HaltHandle::ready
Ready ==
    /\ readyCalls < MaxReady
    /\ readyCalls' = readyCalls + 1
    /\ sent' = ChannelSend(sent, rxAlive, ReadyMsg)
    /\ UNCHANGED <<kind, tstate, tw, rxVersion, rxAlive,
                   haltCalls, haltSome, cellValue, cellVersion,
                   senderAlive, fireCount, permit, notifyCount, tasksSome, jpc,
                   jtimeout, jhead, jres, jnotified, jresult>>
    /\ UNCHANGED <<pvars, xvars, cvars>>

\* variant: notify_waiters() instead of notify_one(): no permit is stored,
\* only a join() already waiting is woken
HaltNotifyWaiters ==
    IF haltSome
    THEN /\ haltSome' = FALSE
         /\ cellValue' = TRUE
         /\ cellVersion' = cellVersion + 1
         /\ senderAlive' = FALSE
         /\ fireCount' = fireCount + 1
         /\ permit' = (jpc = "collect" /\ ~jnotified)
         /\ notifyCount' = notifyCount + 1
    ELSE UNCHANGED <<haltSome, cellValue, cellVersion, senderAlive, fireCount,
                     permit, notifyCount>>

\* variant: the Halt is used but left in the slot
HaltKeep ==
    IF haltSome
    THEN /\ cellValue' = TRUE
         /\ cellVersion' = cellVersion + 1
         /\ senderAlive' = FALSE
         /\ fireCount' = fireCount + 1
         /\ permit' = TRUE
         /\ notifyCount' = notifyCount + 1
         /\ UNCHANGED haltSome
    ELSE UNCHANGED <<haltSome, cellValue, cellVersion, senderAlive, fireCount,
                     permit, notifyCount>>

\* HaltHandle::halt: the locked take() empties the slot; only a call that found
\* Some(halt) goes on: halt.trigger.cancel() sends true and drops the sender,
\* halt.notify_join.notify_one() leaves a permit for join()
Halt ==
    IF haltSome
    THEN /\ haltSome' = FALSE
         /\ cellValue' = TRUE
         /\ cellVersion' = cellVersion + 1
         /\ senderAlive' = FALSE
         /\ fireCount' = fireCount + 1
         /\ permit' = TRUE
         /\ notifyCount' = notifyCount + 1
    ELSE UNCHANGED <<haltSome, cellValue, cellVersion, senderAlive, fireCount,
                     permit, notifyCount>>

\* halt() called from outside the supervised tasks
HaltCall ==
    /\ haltCalls < MaxHaltCalls
    /\ haltCalls' = haltCalls + 1
    /\ Halt
    /\ UNCHANGED <<kind, tstate, tw, rxVersion, sent, rxAlive,
                   readyCalls, tasksSome, jpc, jtimeout, jhead, jres,
                   jnotified, jresult>>
    /\ UNCHANGED <<pvars, xvars, cvars>>

\* a "tripwire" task polls its Tripwire; it returns once the Tripwire is Ready
TaskPoll ==
    /\ \E t \in TaskIds :
        /\ kind[t] = "tripwire" /\ tstate[t] = "running"
        /\ \/ tw[t] \in Unpolled
           \/ tw[t] = "pending" /\ (rxVersion[t] # cellVersion \/ ~senderAlive)
        /\ LET r == TripwirePoll(tw[t] \in Unpolled, rxVersion[t], cellValue,
                                 cellVersion, senderAlive)
           IN  /\ rxVersion' = [rxVersion EXCEPT ![t] = r.seen]
               /\ tw' = [tw EXCEPT ![t] =
                           IF ~r.ready THEN "pending"
                           ELSE IF tw[t] = "late" THEN "observed" ELSE "resolved"]
               /\ tstate' = [tstate EXCEPT ![t] = IF r.ready THEN "done" ELSE "running"]
    /\ UNCHANGED <<kind, sent, rxAlive, readyCalls,
                   haltCalls, haltSome, cellValue, cellVersion,
                   senderAlive, fireCount, permit, notifyCount, tasksSome, jpc,
                   jtimeout, jhead, jres, jnotified, jresult>>
    /\ UNCHANGED <<pvars, xvars, cvars>>

\* variant: halt() aborts the tasks, a fired trigger ends a "forever" task
TaskFinishAborted ==
    /\ \E t \in TaskIds :
        /\ tstate[t] = "running"
        /\ kind[t] = "natural" \/ (kind[t] = "forever" /\ cellValue)
        /\ tstate' = [tstate EXCEPT ![t] = "done"]
    /\ UNCHANGED <<kind, tw, rxVersion, sent, rxAlive,
                   readyCalls, haltCalls, haltSome, cellValue,
                   cellVersion, senderAlive, fireCount, permit, notifyCount,
                   tasksSome, jpc, jtimeout, jhead, jres, jnotified,
                   jresult>>
    /\ UNCHANGED <<pvars, xvars, cvars>>

\* a "natural" task returns
TaskFinish ==
    /\ \E t \in TaskIds :
        /\ kind[t] = "natural" /\ tstate[t] = "running"
        /\ tstate' = [tstate EXCEPT ![t] = "done"]
    /\ UNCHANGED <<kind, tw, rxVersion, sent, rxAlive,
                   readyCalls, haltCalls, haltSome, cellValue,
                   cellVersion, senderAlive, fireCount, permit, notifyCount,
                   tasksSome, jpc, jtimeout, jhead, jres, jnotified,
                   jresult>>
    /\ UNCHANGED <<pvars, xvars, cvars>>

\* a "panic" task panics
TaskPanic ==
    /\ \E t \in TaskIds :
        /\ kind[t] = "panic" /\ tstate[t] = "running"
        /\ tstate' = [tstate EXCEPT ![t] = "panicked"]
    /\ UNCHANGED <<kind, tw, rxVersion, sent, rxAlive,
                   readyCalls, haltCalls, haltSome, cellValue,
                   cellVersion, senderAlive, fireCount, permit, notifyCount,
                   tasksSome, jpc, jtimeout, jhead, jres, jnotified,
                   jresult>>
    /\ UNCHANGED <<pvars, xvars, cvars>>

\* a "halter" task calls halt() on the shared handle and returns
TaskHalt ==
    /\ \E t \in TaskIds :
        /\ kind[t] = "halter" /\ tstate[t] = "running"
        /\ tstate' = [tstate EXCEPT ![t] = "done"]
    /\ Halt
    /\ UNCHANGED <<kind, tw, rxVersion, sent, rxAlive, readyCalls,
                   haltCalls, tasksSome, jpc, jtimeout, jhead, jres,
                   jnotified, jresult>>
    /\ UNCHANGED <<pvars, xvars, cvars>>

\* variant: join() looks at the Tasks through the lock but leaves them there
JoinCallNoTake ==
    /\ jpc = "idle" /\ tasksSome
    /\ UNCHANGED tasksSome
    /\ jpc' = "collect"
    /\ jtimeout' \in {"none", "some"}
    /\ UNCHANGED <<kind, tstate, tw, rxVersion, sent,
                   rxAlive, readyCalls, haltCalls, haltSome,
                   cellValue, cellVersion, senderAlive, fireCount, permit,
                   notifyCount, jhead, jres, jnotified, jresult>>
    /\ UNCHANGED <<pvars, xvars, cvars>>

\* HaltHandle::join is called and takes the Tasks
JoinCall ==
    /\ jpc = "idle" /\ tasksSome
    /\ tasksSome' = FALSE
    /\ jpc' = "collect"
    /\ jtimeout' \in {"none", "some"}
    /\ UNCHANGED <<kind, tstate, tw, rxVersion, sent,
                   rxAlive, readyCalls, haltCalls, haltSome,
                   cellValue, cellVersion, senderAlive, fireCount, permit,
                   notifyCount, jhead, jres, jnotified, jresult>>
    /\ UNCHANGED <<pvars, xvars, cvars>>

\* variant: every handle is awaited and a later join error replaces the first
JoinRecvLastError ==
    /\ jpc = "collect" /\ jhead < Len(sent)
    /\ LET msg == sent[jhead + 1]
       IN  IF msg.type = "Ready"
           THEN /\ jhead' = jhead + 1
                /\ jresult' = IF jres = 0 THEN "Ok" ELSE "Join"
                /\ jpc' = "returned"
                /\ rxAlive' = FALSE
                /\ UNCHANGED jres
           ELSE /\ Terminated(msg.h)
                /\ jhead' = jhead + 1
                /\ jres' = IF tstate[msg.h] = "panicked" THEN msg.h ELSE jres
                /\ UNCHANGED <<jresult, jpc, rxAlive>>
    /\ UNCHANGED <<kind, tstate, tw, rxVersion, sent,
                   readyCalls, haltCalls, haltSome, cellValue,
                   cellVersion, senderAlive, fireCount, permit, notifyCount,
                   tasksSome, jtimeout, jnotified>>
    /\ UNCHANGED <<pvars, xvars, cvars>>

\* variant: the fold awaits every handle, also after a join error
JoinRecvAwaitAll ==
    /\ jpc = "collect" /\ jhead < Len(sent)
    /\ LET msg == sent[jhead + 1]
       IN  IF msg.type = "Ready"
           THEN /\ jhead' = jhead + 1
                /\ jresult' = IF jres = 0 THEN "Ok" ELSE "Join"
                /\ jpc' = "returned"
                /\ rxAlive' = FALSE
                /\ UNCHANGED jres
           ELSE /\ Terminated(msg.h)
                /\ jhead' = jhead + 1
                /\ jres' = IF jres = 0 /\ tstate[msg.h] = "panicked" THEN msg.h ELSE jres
                /\ UNCHANGED <<jresult, jpc, rxAlive>>
    /\ UNCHANGED <<kind, tstate, tw, rxVersion, sent,
                   readyCalls, haltCalls, haltSome, cellValue,
                   cellVersion, senderAlive, fireCount, permit, notifyCount,
                   tasksSome, jtimeout, jnotified>>
    /\ UNCHANGED <<pvars, xvars, cvars>>

\* variant: take_while is missing, a Ready message is passed over
JoinRecvPastReady ==
    /\ jpc = "collect" /\ jhead < Len(sent)
    /\ LET msg == sent[jhead + 1]
       IN  IF msg.type = "Ready"
           THEN /\ jhead' = jhead + 1
                /\ UNCHANGED <<jres, jresult, jpc, rxAlive>>
           ELSE /\ jres # 0 \/ Terminated(msg.h)
                /\ jhead' = jhead + 1
                /\ jres' = IF jres = 0 /\ tstate[msg.h] = "panicked" THEN msg.h ELSE jres
                /\ UNCHANGED <<jresult, jpc, rxAlive>>
    /\ UNCHANGED <<kind, tstate, tw, rxVersion, sent,
                   readyCalls, haltCalls, haltSome, cellValue,
                   cellVersion, senderAlive, fireCount, permit, notifyCount,
                   tasksSome, jtimeout, jnotified>>
    /\ UNCHANGED <<pvars, xvars, cvars>>

\* variant: the fold takes a Task and goes on without awaiting its handle
JoinRecvNoAwait ==
    /\ jpc = "collect" /\ jhead < Len(sent)
    /\ LET msg == sent[jhead + 1]
       IN  IF msg.type = "Ready"
           THEN /\ jhead' = jhead + 1
                /\ jresult' = IF jres = 0 THEN "Ok" ELSE "Join"
                /\ jpc' = "returned"
                /\ rxAlive' = FALSE
                /\ UNCHANGED jres
           ELSE /\ TRUE
                /\ jhead' = jhead + 1
                /\ jres' = jres
                /\ UNCHANGED <<jresult, jpc, rxAlive>>
    /\ UNCHANGED <<kind, tstate, tw, rxVersion, sent,
                   readyCalls, haltCalls, haltSome, cellValue,
                   cellVersion, senderAlive, fireCount, permit, notifyCount,
                   tasksSome, jtimeout, jnotified>>
    /\ UNCHANGED <<pvars, xvars, cvars>>

\* variant: the fold fails fast, join() returns the join error as soon as it
\* has awaited the handle of a panicked task
JoinRecvFailFast ==
    /\ jpc = "collect" /\ jhead < Len(sent)
    /\ LET msg == sent[jhead + 1]
       IN  IF msg.type = "Ready"
           THEN /\ jhead' = jhead + 1
                /\ jresult' = IF jres = 0 THEN "Ok" ELSE "Join"
                /\ jpc' = "returned"
                /\ rxAlive' = FALSE
                /\ UNCHANGED jres
           ELSE /\ jres # 0 \/ Terminated(msg.h)
                /\ jhead' = jhead + 1
                /\ jres' = IF jres = 0 /\ tstate[msg.h] = "panicked" THEN msg.h ELSE jres
                /\ IF jres' # 0
                   THEN jresult' = "Join" /\ jpc' = "returned" /\ rxAlive' = FALSE
                   ELSE UNCHANGED <<jresult, jpc, rxAlive>>
    /\ UNCHANGED <<kind, tstate, tw, rxVersion, sent,
                   readyCalls, haltCalls, haltSome, cellValue,
                   cellVersion, senderAlive, fireCount, permit, notifyCount,
                   tasksSome, jtimeout, jnotified>>
    /\ UNCHANGED <<pvars, xvars, cvars>>

\* join(): the handles future takes the next message.  Ready ends take_while,
\* the fold's result is join()'s result and the Tasks are dropped.  A Task is
\* passed over if the accumulator is an error; otherwise its JoinHandle is
\* awaited, which completes when the task has terminated, and a panic becomes
\* HaltError::Join (jres names the task whose error it is)
JoinRecv ==
    /\ jpc = "collect" /\ jhead < Len(sent)
    /\ LET msg == sent[jhead + 1]
       IN  IF msg.type = "Ready"
           THEN /\ jhead' = jhead + 1
                /\ jresult' = IF jres = 0 THEN "Ok" ELSE "Join"
                /\ jpc' = "returned"
                /\ rxAlive' = FALSE
                /\ UNCHANGED jres
           ELSE /\ jres # 0 \/ Terminated(msg.h)
                /\ jhead' = jhead + 1
                /\ jres' = IF jres = 0 /\ tstate[msg.h] = "panicked" THEN msg.h ELSE jres
                /\ UNCHANGED <<jresult, jpc, rxAlive>>
    /\ UNCHANGED <<kind, tstate, tw, rxVersion, sent,
                   readyCalls, haltCalls, haltSome, cellValue,
                   cellVersion, senderAlive, fireCount, permit, notifyCount,
                   tasksSome, jtimeout, jnotified>>
    /\ UNCHANGED <<pvars, xvars, cvars>>

\* variant: the notify wait completes without a permit
JoinNotifiedSpurious ==
    /\ jpc = "collect" /\ ~jnotified
    /\ jnotified' = TRUE
    /\ UNCHANGED <<kind, tstate, tw, rxVersion, sent,
                   rxAlive, readyCalls, haltCalls, haltSome,
                   cellValue, cellVersion, senderAlive, fireCount, permit,
                   notifyCount, tasksSome, jpc, jtimeout, jhead, jres,
                   jresult>>
    /\ UNCHANGED <<pvars, xvars, cvars>>

\* join(): notify_join.notified() completes by consuming the permit of halt()
JoinNotified ==
    /\ jpc = "collect" /\ ~jnotified /\ permit
    /\ permit' = FALSE
    /\ jnotified' = TRUE
    /\ UNCHANGED <<kind, tstate, tw, rxVersion, sent,
                   rxAlive, readyCalls, haltCalls, haltSome,
                   cellValue, cellVersion, senderAlive, fireCount, notifyCount,
                   tasksSome, jpc, jtimeout, jhead, jres, jresult>>
    /\ UNCHANGED <<pvars, xvars, cvars>>

\* variant: the sleep starts with join(), not with the notification of halt()
JoinTimeoutUnnotified ==
    /\ jpc = "collect" /\ jtimeout = "some"
    /\ jresult' = "Timeout"
    /\ jpc' = "returned"
    /\ rxAlive' = FALSE
    /\ UNCHANGED <<kind, tstate, tw, rxVersion, sent,
                   readyCalls, haltCalls, haltSome, cellValue,
                   cellVersion, senderAlive, fireCount, permit, notifyCount,
                   tasksSome, jtimeout, jhead, jres, jnotified>>
    /\ UNCHANGED <<pvars, xvars, cvars>>

\* variant: the notify branch returns Timeout whatever the timeout argument
JoinTimeoutAlways ==
    /\ jpc = "collect" /\ jnotified
    /\ jresult' = "Timeout"
    /\ jpc' = "returned"
    /\ rxAlive' = FALSE
    /\ UNCHANGED <<kind, tstate, tw, rxVersion, sent,
                   readyCalls, haltCalls, haltSome, cellValue,
                   cellVersion, senderAlive, fireCount, permit, notifyCount,
                   tasksSome, jtimeout, jhead, jres, jnotified>>
    /\ UNCHANGED <<pvars, xvars, cvars>>

\* join(): after the notification the sleep(timeout) elapses and the notify
\* branch of select! returns Timeout; the Tasks are dropped
JoinTimeout ==
    /\ jpc = "collect" /\ jnotified /\ jtimeout = "some"
    /\ jresult' = "Timeout"
    /\ jpc' = "returned"
    /\ rxAlive' = FALSE
    /\ UNCHANGED <<kind, tstate, tw, rxVersion, sent,
                   readyCalls, haltCalls, haltSome, cellValue,
                   cellVersion, senderAlive, fireCount, permit, notifyCount,
                   tasksSome, jtimeout, jhead, jres, jnotified>>
    /\ UNCHANGED <<pvars, xvars, cvars>>

\* HaltHandle::join called when the Tasks were already taken: the expect()
\* panics in the caller, nothing of the handle changes
JoinAgain ==
    /\ ~tasksSome
    /\ joinPanics < MaxRejoin
    /\ joinPanics' = joinPanics + 1
    /\ UNCHANGED <<signal_task_spawned, signalCalls, sigTasks, sigpc>>
    /\ UNCHANGED <<pvars, hvars, cvars, yvars>>

\* variant: the flag is only read, a plain load instead of compare_exchange
\* whose store is missing
HandleSignalNoSwap ==
    /\ signalCalls < MaxSignalCalls
    /\ signalCalls' = signalCalls + 1
    /\ IF ~signal_task_spawned
       THEN /\ sigTasks' = sigTasks + 1
            /\ sigpc' = "listening"
            /\ UNCHANGED signal_task_spawned
       ELSE UNCHANGED <<signal_task_spawned, sigTasks, sigpc>>
    /\ UNCHANGED joinPanics
    /\ UNCHANGED <<pvars, hvars, cvars, yvars>>

\* HaltHandle::handle_signal (halt_on_signal passes the closure that calls
\* halt()): the call that swaps signal_task_spawned from false to true builds
\* the closure's future and spawns interrupt_signal with tokio::spawn, outside
\* the supervised tasks; any other call does nothing
HandleSignal ==
    /\ signalCalls < MaxSignalCalls
    /\ signalCalls' = signalCalls + 1
    /\ IF ~signal_task_spawned
       THEN /\ signal_task_spawned' = TRUE
            /\ sigTasks' = sigTasks + 1
            /\ sigpc' = "listening"
       ELSE UNCHANGED <<signal_task_spawned, sigTasks, sigpc>>
    /\ UNCHANGED joinPanics
    /\ UNCHANGED <<pvars, hvars, cvars, yvars>>

\* interrupt_signal: SIGTERM or SIGINT arrives and the closure's future runs,
\* which for halt_on_signal is this.halt()
SignalReceived ==
    /\ sigpc = "listening"
    /\ sigpc' = "done"
    /\ Halt
    /\ UNCHANGED <<kind, tstate, tw, rxVersion, sent, rxAlive, readyCalls,
                   haltCalls, tasksSome, jpc, jtimeout, jhead, jres,
                   jnotified, jresult>>
    /\ UNCHANGED <<joinPanics, signal_task_spawned, signalCalls, sigTasks>>
    /\ UNCHANGED <<pvars, cvars, yvars>>

-----------------------------------------------------------------------------
(* Tripwire values: clones held and polled by code outside the spawned     *)
(* futures, and the Trigger dropped without being fired.                   *)

MaxTripwires == 2
MaxPolls == 3
TripwireIds == 1..MaxTripwires

\* Tripwire::clone: the receiver field is cloned as it is (a None stays
\* None), the clone starts without a future
TripwireClone(rcv) == [receiver |-> rcv, wait_for_halt_future |-> FALSE]

\* variant: a Tripwire whose receiver was taken is Pending
TripwireFuturePollTaken(rcv, fut, seen, value, version, alive) ==
    IF rcv = "None"
    THEN [result |-> "Pending", receiver |-> "None",
          wait_for_halt_future |-> fut, seen |-> seen]
    ELSE LET r == TripwirePoll(~fut, seen, value, version, alive)
         IN  IF r.ready
             THEN [result |-> "Ready", receiver |-> "None",
                   wait_for_halt_future |-> FALSE, seen |-> r.seen]
             ELSE [result |-> "Pending", receiver |-> "Some",
                   wait_for_halt_future |-> TRUE, seen |-> r.seen]

\* <Tripwire as Future>::poll: Ready at once when the receiver is None;
\* otherwise the future is created if missing and polled, and on Ready both
\* fields are taken
TripwireFuturePoll(rcv, fut, seen, value, version, alive) ==
    IF rcv = "None"
    THEN [result |-> "Ready", receiver |-> "None",
          wait_for_halt_future |-> fut, seen |-> seen]
    ELSE LET r == TripwirePoll(~fut, seen, value, version, alive)
         IN  IF r.ready
             THEN [result |-> "Ready", receiver |-> "None",
                   wait_for_halt_future |-> FALSE, seen |-> r.seen]
             ELSE [result |-> "Pending", receiver |-> "Some",
                   wait_for_halt_future |-> TRUE, seen |-> r.seen]

\* tripwire.clone() of the original Tripwire (s = 0, never polled) or of a
\* Tripwire value made earlier
CloneTripwire ==
    /\ \E c \in TripwireIds, s \in 0..MaxTripwires :
        /\ receiver[c] = "absent"
        /\ \A d \in TripwireIds : d < c => receiver[d] # "absent"
        /\ s # 0 => receiver[s] # "absent"
        /\ LET n == TripwireClone(IF s = 0 THEN "Some" ELSE receiver[s])
           IN  /\ receiver' = [receiver EXCEPT ![c] = n.receiver]
               /\ wait_for_halt_future' =
                     [wait_for_halt_future EXCEPT ![c] = n.wait_for_halt_future]
        /\ twSeen' = [twSeen EXCEPT ![c] = CloneVersion(cellVersion)]
        /\ cloned_from' = [cloned_from EXCEPT ![c] = s]
    /\ UNCHANGED <<polled, polls>>
    /\ UNCHANGED <<kvars, fvars>>
    /\ UNCHANGED <<joinPanics, signal_task_spawned, signalCalls, sigTasks, sigpc>>
    /\ UNCHANGED <<pvars, hvars, cvars>>

\* a poll of a Tripwire value: the first one, one after a wake-up (the watch
\* cell changed or its sender is gone), or one more after it was Ready
PollTripwire ==
    /\ \E c \in TripwireIds :
        /\ receiver[c] # "absent" /\ polls[c] < MaxPolls
        /\ \/ receiver[c] = "None"
           \/ ~wait_for_halt_future[c]
           \/ twSeen[c] # cellVersion
           \/ ~senderAlive
        /\ LET r == TripwireFuturePoll(receiver[c], wait_for_halt_future[c],
                                       twSeen[c], cellValue, cellVersion,
                                       senderAlive)
           IN  /\ receiver' = [receiver EXCEPT ![c] = r.receiver]
               /\ wait_for_halt_future' =
                     [wait_for_halt_future EXCEPT ![c] = r.wait_for_halt_future]
               /\ twSeen' = [twSeen EXCEPT ![c] = r.seen]
               /\ polled' = [polled EXCEPT ![c] = r.result]
        /\ polls' = [polls EXCEPT ![c] = polls[c] + 1]
    /\ UNCHANGED cloned_from
    /\ UNCHANGED <<kvars, fvars>>
    /\ UNCHANGED <<joinPanics, signal_task_spawned, signalCalls, sigTasks, sigpc>>
    /\ UNCHANGED <<pvars, hvars, cvars>>

\* the Trigger, or the HaltHandle whose halt slot still owns it, is dropped:
\* the watch sender goes away and no value was sent
DropTrigger ==
    /\ haltSome
    /\ haltSome' = FALSE
    /\ senderAlive' = FALSE
    /\ UNCHANGED <<kind, tstate, tw, rxVersion, sent, rxAlive, readyCalls,
                   haltCalls, cellValue, cellVersion, fireCount, permit,
                   notifyCount, tasksSome, jpc, jtimeout, jhead, jres,
                   jnotified, jresult>>
    /\ UNCHANGED <<pvars, xvars, cvars>>

\* Tripwire::new: only the original Tripwire exists
TripwiresIdle ==
    /\ receiver = [c \in TripwireIds |-> "absent"]
    /\ wait_for_halt_future = [c \in TripwireIds |-> FALSE]
    /\ twSeen = [c \in TripwireIds |-> 0]
    /\ polled = [c \in TripwireIds |-> "none"]
    /\ polls = [c \in TripwireIds |-> 0]
    /\ cloned_from = [c \in TripwireIds |-> 0]

-----------------------------------------------------------------------------
(* The keytool: its commands write keys and certificates with              *)
(* write_to_file.  A file content is what was serialized into it.          *)

MaxCommands == 2
Paths == {"a.key", "b.key", "a.cert"}
Keys == 1..2

Content(t, k, by) == [t |-> t, k |-> k, by |-> by]
Absent == Content("absent", 0, 0)
\* a file the keytool did not write
Other == Content("other", 0, 0)
\* a file created by open_new_file into which nothing, or only a part of
\* the text, was written
Empty == Content("empty", 0, 0)
Partial == Content("partial", 0, 0)

\* PathBuf::set_extension("cert")
SetExtensionCert(path) ==
    CASE path = "a.key" -> "a.cert"
      [] path = "a.cert" -> "a.cert"
      [] OTHER -> "b.cert"

\* variant: the file is opened with create(true).truncate(true)
OpenNewFileTruncate(fs, path) ==
    [ok |-> TRUE, files |-> [fs EXCEPT ![path] = Empty]]

\* open_new_file: OpenOptions write + create_new; an existing path is an error
OpenNewFile(fs, path) ==
    IF fs[path] = Absent
    THEN [ok |-> TRUE, files |-> [fs EXCEPT ![path] = Empty]]
    ELSE [ok |-> FALSE, files |-> fs]

\* how a write_to_file call goes once the file is open: all is written, the
\* payload does not serialize, or write_all fails
WriteOutcomes == {"ok", "serialize", "io"}

\* write_to_file: open_new_file, then payload.try_into(), then write_all of
\* the text and a newline
WriteToFile(fs, path, payload, outcome) ==
    LET o == OpenNewFile(fs, path)
    IN  IF ~o.ok THEN [ok |-> FALSE, files |-> o.files]
        ELSE IF outcome = "serialize" THEN [ok |-> FALSE, files |-> o.files]
        ELSE IF outcome = "io"
        THEN [ok |-> FALSE, files |-> [o.files EXCEPT ![path] = Partial]]
        ELSE [ok |-> TRUE, files |-> [o.files EXCEPT ![path] = payload]]

\* GenCAKeyCommand::execute and GenNoiseKeyCommand::execute: the public key
\* is written, then the secret key; `?` returns at the first failure
GenKeyExecute(name, public_t, secret_t) ==
    /\ commands < MaxCommands
    /\ commands' = commands + 1
    /\ \E public_key_file \in Paths, secret_key_file \in Paths, k \in Keys,
          o1 \in WriteOutcomes, o2 \in WriteOutcomes :
        LET w1 == WriteToFile(files, public_key_file, Content(public_t, k, 0), o1)
            w2 == WriteToFile(w1.files, secret_key_file, Content(secret_t, k, 0), o2)
        IN  /\ kcmd' = [name |-> name, public_key_file |-> public_key_file,
                        secret_key_file |-> secret_key_file]
            /\ IF ~w1.ok
               THEN files' = w1.files /\ kresult' = "Err"
               ELSE files' = w2.files /\ kresult' = IF w2.ok THEN "Ok" ELSE "Err"
    /\ UNCHANGED <<tvars, fvars>>
    /\ UNCHANGED <<joinPanics, signal_task_spawned, signalCalls, sigTasks, sigpc>>
    /\ UNCHANGED <<pvars, hvars, cvars>>

GenCAKeyExecute == GenKeyExecute("GenCAKey", "ed25519_public_key", "ed25519_secret_key")

GenNoiseKeyExecute == GenKeyExecute("GenNoiseKey", "noise_public_key", "noise_secret_key")

\* SignKeyCommand::execute: the key to sign and the signing key are read and
\* parsed, the certificate is signed and written next to the key to sign
SignKeyExecute ==
    /\ commands < MaxCommands
    /\ commands' = commands + 1
    /\ \E public_key_to_sign \in {q \in Paths : SetExtensionCert(q) \in Paths},
          signing_key \in Paths, signed \in BOOLEAN, o \in WriteOutcomes :
        LET pk == files[public_key_to_sign]
            sk == files[signing_key]
            w == WriteToFile(files, SetExtensionCert(public_key_to_sign),
                             Content("certificate", pk.k, sk.k), o)
        IN  /\ kcmd' = [name |-> "SignKey", public_key_file |-> public_key_to_sign,
                        secret_key_file |-> signing_key]
            /\ IF pk.t # "noise_public_key" \/ sk.t # "ed25519_secret_key" \/ ~signed
               THEN kresult' = "Err" /\ UNCHANGED files
               ELSE files' = w.files /\ kresult' = IF w.ok THEN "Ok" ELSE "Err"
    /\ UNCHANGED <<tvars, fvars>>
    /\ UNCHANGED <<joinPanics, signal_task_spawned, signalCalls, sigTasks, sigpc>>
    /\ UNCHANGED <<pvars, hvars, cvars>>

\* no keytool command has run
NoCommand == [name |-> "none", public_key_file |-> "a.key", secret_key_file |-> "a.key"]

\* the keytool is not used
KeytoolIdle ==
    /\ files = [q \in Paths |-> Absent]
    /\ commands = 0
    /\ kcmd = NoCommand
    /\ kresult = "none"

\* the directory the keytool is started in: files of others, and keys made
\* by earlier runs
InitKeytoolVars ==
    /\ files \in [Paths -> {Absent, Other, Content("noise_public_key", 1, 0),
                            Content("ed25519_secret_key", 2, 0)}]
    /\ commands = 0
    /\ kcmd = NoCommand
    /\ kresult = "none"

-----------------------------------------------------------------------------
(* The Debug output of ServerSecurityBundle.  An output is the struct name *)
(* and the fields given to debug_struct, each with the text written.       *)

MaxTime == 3

\* a Certificate: the validity of its header, the keys, and whether its
\* signature verifies against the authority key
Certificates ==
    [valid_from : {0, 1}, not_valid_after : {2}, public_key : {1},
     authority_public_key : 1..2, signature : {"good", "bad"}]

ServerSecurityBundles == [certificate : Certificates, secret_key : 1..2]

\* String::from of an encoded key: the Base58 text of the key
Base58(key) == <<58>> \o DecText(key)

\* "certificate is invalid"
InvalidText == <<99,101,114,116,105,102,105,99,97,116,101,32,105,115,32,105,110,118,97,108,105,100>>

\* SignedPart::verify_expiration as the doc-test of validate_by_time shows
\* it: Ok(expiry) one second before not_valid_after, an error one second
\* after it; expiry_rule stands for what is not shown
VerifyExpiration(header, t, rule) ==
    IF /\ rule.from_checked => t >= header.valid_from
       /\ t < header.not_valid_after \/ (rule.end_valid /\ t = header.not_valid_after)
    THEN [ok |-> TRUE, expiry |-> header.not_valid_after]
    ELSE [ok |-> FALSE, expiry |-> 0]

\* Certificate::validate: the signature of the signed part is verified, then
\* the expiration against the current time
CertificateValidate(certificate, t, rule) ==
    IF certificate.signature # "good" THEN [ok |-> FALSE, expiry |-> 0]
    ELSE VerifyExpiration(certificate, t, rule)

\* ServerSecurityBundle::authority_pubkey
AuthorityPubkey(b) == b.certificate.authority_public_key

\* variant: derive(Debug), every field is written
DebugFmtDerived(b, t, rule) ==
    LET v == CertificateValidate(b.certificate, t, rule)
    IN  [name |-> "ServerSecurityBundle",
         certificate_authority |-> Base58(AuthorityPubkey(b)),
         certificate_expiry |-> IF v.ok THEN DecText(v.expiry) ELSE InvalidText,
         secret_key |-> Base58(b.secret_key)]

\* impl fmt::Debug for ServerSecurityBundle
DebugFmt(b, t, rule) ==
    LET v == CertificateValidate(b.certificate, t, rule)
    IN  [name |-> "ServerSecurityBundle",
         certificate_authority |-> Base58(AuthorityPubkey(b)),
         certificate_expiry |-> IF v.ok THEN DecText(v.expiry) ELSE InvalidText,
         secret_key |-> <<>>]

\* nothing formatted yet
NoOutput ==
    [name |-> "", certificate_authority |-> <<>>, certificate_expiry |-> <<>>,
     secret_key |-> <<>>]

\* format!("{:?}", bundle[i])
DebugFmtCall ==
    /\ \E i \in 1..2 :
        /\ debug_at[i] = -1
        /\ debug_out' = [debug_out EXCEPT ![i] = DebugFmt(bundle[i], now, expiry_rule)]
        /\ debug_at' = [debug_at EXCEPT ![i] = now]
    /\ UNCHANGED <<bundle, now, expiry_rule>>
    /\ UNCHANGED <<tvars, kvars>>
    /\ UNCHANGED <<joinPanics, signal_task_spawned, signalCalls, sigTasks, sigpc>>
    /\ UNCHANGED <<pvars, hvars, cvars>>

\* a second passes
Tick ==
    /\ now < MaxTime
    /\ now' = now + 1
    /\ UNCHANGED <<bundle, expiry_rule, debug_out, debug_at>>
    /\ UNCHANGED <<tvars, kvars>>
    /\ UNCHANGED <<joinPanics, signal_task_spawned, signalCalls, sigTasks, sigpc>>
    /\ UNCHANGED <<pvars, hvars, cvars>>

\* no bundle is formatted
FormatsIdle ==
    /\ bundle = [i \in 1..2 |->
                   [certificate |-> [valid_from |-> 0, not_valid_after |-> 2,
                                     public_key |-> 1, authority_public_key |-> 1,
                                     signature |-> "good"],
                    secret_key |-> 1]]
    /\ now = 0
    /\ expiry_rule = [from_checked |-> TRUE, end_valid |-> TRUE]
    /\ debug_out = [i \in 1..2 |-> NoOutput]
    /\ debug_at = [i \in 1..2 |-> -1]

\* two bundles read by read_from_string
InitFormatsVars ==
    /\ bundle \in [1..2 -> ServerSecurityBundles]
    /\ now = 0
    /\ expiry_rule \in [from_checked : BOOLEAN, end_valid : BOOLEAN]
    /\ debug_out = [i \in 1..2 |-> NoOutput]
    /\ debug_at = [i \in 1..2 |-> -1]

\* the parts of the state a specification does not use
RestIdle == TripwiresIdle /\ KeytoolIdle /\ FormatsIdle

\* HaltHandle::default: no signal task, join() not yet called
InitHandleVars ==
    /\ joinPanics = 0
    /\ signal_task_spawned = FALSE
    /\ signalCalls = 0
    /\ sigTasks = 0
    /\ sigpc = "none"

\* HaltHandle::default
InitHaltVars ==
    /\ kind = [t \in TaskIds |-> "none"]
    /\ tstate = [t \in TaskIds |-> "unspawned"]
    /\ tw = [t \in TaskIds |-> "none"]
    /\ rxVersion = [t \in TaskIds |-> 0]
    /\ sent = <<>>
    /\ rxAlive = TRUE
    /\ readyCalls = 0
    /\ haltCalls = 0
    /\ haltSome = TRUE
    /\ cellValue = FALSE
    /\ cellVersion = 0
    /\ senderAlive = TRUE
    /\ fireCount = 0
    /\ permit = FALSE
    /\ notifyCount = 0
    /\ tasksSome = TRUE
    /\ jpc = "idle"
    /\ jtimeout = "none"
    /\ jhead = 0
    /\ jres = 0
    /\ jnotified = FALSE
    /\ jresult = "none"

NextHaltVars ==
    \/ Spawn
    \/ Ready
    \/ HaltCall
    \/ TaskPoll
    \/ TaskFinish
    \/ TaskPanic
    \/ TaskHalt
    \/ JoinCall
    \/ JoinRecv
    \/ JoinNotified
    \/ JoinTimeout

-----------------------------------------------------------------------------
(* Specifications.                                                         *)

InitProxy == InitProxyVars /\ InitHaltVars /\ InitHandleVars /\ RestIdle
NextProxy == NextProxyVars
SpecProxy == InitProxy /\ [][NextProxy]_vars

InitBuilder == InitBuilderVars /\ InitHaltVars /\ InitHandleVars /\ RestIdle
NextBuilder == NextProxyVars \/ BuildSkip
SpecBuilder == InitBuilder /\ [][NextBuilder]_vars

InitConnector == InitConnectorVars /\ InitHaltVars /\ InitHandleVars /\ RestIdle
NextConnector ==
    \/ WriteProxyHeader
    \/ AcceptWritten
    \/ FramedDecode
    \/ FramedRead
    \/ FramedIoError
    \/ TryIntoInner
SpecConnector == InitConnector /\ [][NextConnector]_vars

InitHalt == InitHaltVars /\ InitHandleVars /\ ProxyIdle /\ RestIdle
NextHalt == NextHaltVars
SpecHalt == InitHalt /\ [][NextHalt]_vars

\* the supervisor when every spawned future is cooperative
NextCooperative ==
    \/ SpawnCooperative
    \/ Ready
    \/ HaltCall
    \/ TaskPoll
    \/ TaskFinish
    \/ TaskHalt
    \/ JoinCall
    \/ JoinRecv
    \/ JoinNotified
    \/ JoinTimeout

\* the handle with signal binding and repeated join() calls, supervising
\* futures that await their Tripwire
NextHandle ==
    \/ SpawnStoppable
    \/ Ready
    \/ HaltCall
    \/ TaskPoll
    \/ JoinCall
    \/ JoinRecv
    \/ JoinNotified
    \/ JoinTimeout
    \/ JoinAgain
    \/ HandleSignal
    \/ SignalReceived

SpecHandle == InitHalt /\ [][NextHandle]_vars

\* the runtime keeps polling runnable tasks and the join future, timers elapse
FairHalt ==
    /\ WF_vars(TaskPoll)
    /\ WF_vars(TaskFinish)
    /\ WF_vars(TaskHalt)
    /\ WF_vars(JoinRecv)
    /\ WF_vars(JoinNotified)
    /\ WF_vars(JoinTimeout)

SpecHaltFair == InitHalt /\ [][NextCooperative]_vars /\ FairHalt

\* the supervisor with futures that may never return
NextTimed ==
    \/ SpawnTimed
    \/ Ready
    \/ HaltCall
    \/ TaskPoll
    \/ JoinCall
    \/ JoinRecv
    \/ JoinNotified
    \/ JoinTimeout

\* the runtime keeps polling runnable tasks and the join future, timers elapse
FairTimed ==
    /\ WF_vars(TaskPoll)
    /\ WF_vars(JoinRecv)
    /\ WF_vars(JoinNotified)
    /\ WF_vars(JoinTimeout)

SpecHaltTimed == InitHalt /\ [][NextTimed]_vars /\ FairTimed

\* futures that return or panic by themselves
Failing == {"natural", "panic"}
SpawnFailing == SpawnOf(Failing)

\* the supervisor with futures that may panic
NextFailing ==
    \/ SpawnFailing
    \/ Ready
    \/ HaltCall
    \/ TaskFinish
    \/ TaskPanic
    \/ JoinCall
    \/ JoinRecv
    \/ JoinNotified
    \/ JoinTimeout

\* the runtime runs the tasks and keeps polling the join future, timers elapse
FairFailing ==
    /\ WF_vars(TaskFinish)
    /\ WF_vars(TaskPanic)
    /\ WF_vars(JoinRecv)
    /\ WF_vars(JoinNotified)
    /\ WF_vars(JoinTimeout)

SpecHaltFailing == InitHalt /\ [][NextFailing]_vars /\ FairFailing

\* runs of the keytool in one directory
InitKeytool ==
    /\ InitHaltVars /\ InitHandleVars /\ ProxyIdle
    /\ TripwiresIdle /\ InitKeytoolVars /\ FormatsIdle

NextKeytool ==
    \/ GenCAKeyExecute
    \/ GenNoiseKeyExecute
    \/ SignKeyExecute

SpecKeytool == InitKeytool /\ [][NextKeytool]_vars

\* two bundles formatted for the log
InitFormats ==
    /\ InitHaltVars /\ InitHandleVars /\ ProxyIdle
    /\ TripwiresIdle /\ KeytoolIdle /\ InitFormatsVars

NextFormats ==
    \/ DebugFmtCall
    \/ Tick

SpecFormats == InitFormats /\ [][NextFormats]_vars

\* the Trigger was dropped and never fired
Dropped == ~senderAlive /\ fireCount = 0

\* a Trigger with its Tripwire and the clones made of it; spawn() and halt()
\* need the handle, the Tripwires outlive it
NextTripwire ==
    \/ ~Dropped /\ SpawnStoppable
    \/ TaskPoll
    \/ CloneTripwire
    \/ PollTripwire
    \/ ~Dropped /\ HaltCall
    \/ DropTrigger

SpecTripwire == InitHalt /\ [][NextTripwire]_vars

-----------------------------------------------------------------------------
(* Properties of the acceptor.                                             *)

\* the first bytes of the stream match neither tag (or the stream is shorter)
NoPrefix ==
    /\ Take(Data, COMMON_HEADER_PREFIX_LEN) # Take(V1_TAG, COMMON_HEADER_PREFIX_LEN)
    /\ Take(Data, COMMON_HEADER_PREFIX_LEN) # Take(V2_TAG, COMMON_HEADER_PREFIX_LEN)

\* C1: byte preservation on the header path.  When the stream is a valid
\* header h followed by a payload p and the acceptor that ran decodes the
\* version of h (accept_auto, or accept_v1 / accept_v2 of that version), then
\* for every chunking an accepted ProxyStream's carry followed by the bytes
\* still unread in the transport is exactly p.
C1_BytePreservation ==
    (/\ pc = "ok" /\ inp.h # <<>> /\ ~iofail
     /\ entry \in {"auto", HdrVersion(inp.h)})
        => buf \o Unread = inp.p

\* a header was decoded while part of the payload sat in the carry and part
\* was still unread
C1_Witness ==
    /\ pc = "ok" /\ entry = "auto" /\ inp.h = HdrV1Test /\ ~iofail
    /\ buf # <<>> /\ Unread # <<>>
    /\ orig_source = Addr4(192, 168, 0, 1, 56324)
    /\ orig_destination = Addr4(192, 168, 0, 11, 443)

\* C2: pass-through without a header.  accept_auto with
\* require_proxy_header = false on a stream matching neither prefix (or
\* ending before 5 bytes) resolves to a ProxyStream without endpoints whose
\* carry is exactly the bytes read so far.
C2_PassThrough ==
    (entry = "auto" /\ ~require /\ ~iofail /\ NoPrefix /\ pc # "prefix")
        => /\ pc = "ok"
           /\ orig_source = NoAddr /\ orig_destination = NoAddr
           /\ buf = Take(Data, pos)
           /\ buf \o Unread = Data

C2_Witness ==
    /\ entry = "auto" /\ ~require /\ NoPrefix /\ pc = "ok"
    /\ Len(buf) >= COMMON_HEADER_PREFIX_LEN /\ Unread # <<>>

\* C3: required header enforcement.  accept_auto with
\* require_proxy_header = true on a stream matching neither prefix (or ending
\* before 5 bytes) resolves to an error, never to a ProxyStream.
C3_RequiredEnforced ==
    (entry = "auto" /\ require /\ NoPrefix /\ pc # "prefix") => pc = "err"

C3_Witness ==
    /\ entry = "auto" /\ require /\ NoPrefix /\ pc = "err" /\ errKind = "required"
    /\ eof /\ Len(buf) < COMMON_HEADER_PREFIX_LEN /\ buf # <<>>

-----------------------------------------------------------------------------
(* Properties of the halt supervisor.                                      *)

\* index in the queue of the first Ready message, 0 when none was sent
FirstReady ==
    IF \E i \in DOMAIN sent : sent[i].type = "Ready"
    THEN CHOOSE i \in DOMAIN sent :
            /\ sent[i].type = "Ready"
            /\ \A j \in 1..(i - 1) : sent[j].type # "Ready"
    ELSE 0

\* the supervised tasks: those whose handle is queued ahead of the first Ready
BeforeReady ==
    {sent[j].h : j \in 1..((IF FirstReady = 0 THEN Len(sent) + 1 ELSE FirstReady) - 1)}

\* the step in which join() returns
JoinReturns == jresult = "none" /\ jresult' # "none"

\* a step that is a call of halt(), from outside or from a "halter" task
HaltStep ==
    \/ haltCalls' = haltCalls + 1
    \/ \E t \in TaskIds : kind[t] = "halter" /\ tstate[t] = "running" /\ tstate'[t] = "done"

\* C4: Ready boundary.  Whenever join() has returned Ok, the last message it
\* took is the first Ready of the queue, and every task whose handle was
\* queued ahead of that Ready has terminated.
C4_ReadyBoundary ==
    jresult = "Ok" =>
        /\ FirstReady # 0
        /\ jhead = FirstReady
        /\ \A t \in BeforeReady : Terminated(t)

\* join() returned Ok after one supervised task, while a task spawned after
\* ready() is still running
C4_Witness ==
    /\ jresult = "Ok"
    /\ Cardinality(BeforeReady) = 1
    /\ \E t \in Spawned \ BeforeReady : tstate[t] = "running"

\* the fold awaits the handle of a supervised task that has not terminated
FoldBlocked ==
    /\ jpc = "collect" /\ jres = 0
    /\ jhead < Len(sent)
    /\ sent[jhead + 1].type = "Task"
    /\ ~Terminated(sent[jhead + 1].h)

\* C5: panic priority.  When Ready is queued and a task queued ahead of it
\* has panicked, the step in which join() returns yields Join, never Ok or
\* Timeout.  (Of the returns by timeout only those are looked at where the
\* fold is blocked on an unfinished task, so that a Timeout is not owed to
\* the order in which select! polls two branches that are both ready.)
C5_PanicPriority ==
    [][(/\ JoinReturns
        /\ FirstReady # 0
        /\ \E t \in BeforeReady : tstate[t] = "panicked"
        /\ jresult' = "Timeout" => FoldBlocked)
            => jresult' = "Join"]_vars

\* C6: Timeout is measured from halt.  Whenever join() has returned Timeout,
\* halt() was called, join() observed its notification, a timeout was given,
\* and the collection of handles up to Ready was incomplete; so join() never
\* returns Timeout while halt() was never called.
C6_TimeoutAfterHalt ==
    jresult = "Timeout" =>
        /\ ~haltSome
        /\ notifyCount >= 1
        /\ jnotified
        /\ jtimeout = "some"
        /\ (FirstReady = 0 \/ jhead < FirstReady)

\* join(Some) returned Timeout with a never-finishing task ahead of Ready
C6_Witness ==
    /\ jresult = "Timeout"
    /\ FirstReady # 0
    /\ \E t \in BeforeReady : kind[t] = "forever" /\ jhead < t

\* C7: natural completion.  Once join() runs, with any timeout argument, and
\* Ready is queued behind tasks that all return by themselves, join()
\* eventually returns Ok unless halt() is called.
C7_NaturalCompletion ==
    (/\ jpc = "collect"
     /\ FirstReady # 0
     /\ \A t \in BeforeReady : kind[t] = "natural")
        ~> (jresult = "Ok" \/ ~haltSome)

\* join(Some) returned Ok for two tasks that returned by themselves, halt()
\* never called
C7_Witness ==
    /\ jresult = "Ok"
    /\ jtimeout = "some"
    /\ haltSome /\ haltCalls = 0
    /\ Cardinality(BeforeReady) = 2
    /\ \A t \in BeforeReady : kind[t] = "natural" /\ tstate[t] = "done"

\* C8: halt before spawn.  A Tripwire cloned after halt() is never left
\* pending by a poll: it resolves on its first poll.  And once join(None)
\* runs and Ready is queued behind tasks that all await a Tripwire cloned
\* after halt(), every one of them observes the cancellation and join()
\* eventually returns Ok.
C8_HaltBeforeSpawn ==
    /\ [][\A t \in TaskIds :
            (tw[t] = "late" /\ tw'[t] # "late") => tw'[t] = "observed"]_vars
    /\ (/\ jpc = "collect" /\ jtimeout = "none"
        /\ FirstReady # 0
        /\ BeforeReady # {}
        /\ \A t \in BeforeReady :
              kind[t] = "tripwire" /\ tw[t] \in {"late", "observed"})
         ~> (/\ jresult = "Ok"
             /\ \A t \in BeforeReady : tw[t] = "observed" /\ tstate[t] = "done")

\* join(None) returned Ok for two tasks spawned after halt(), each resolved
\* on its first poll
C8_Witness ==
    /\ jresult = "Ok"
    /\ jtimeout = "none"
    /\ Cardinality(BeforeReady) = 2
    /\ \A t \in BeforeReady : kind[t] = "tripwire" /\ tw[t] = "observed"

\* C9: cooperative shutdown.  Once join(None) runs, Ready is queued behind
\* tasks that all return by themselves or once their Tripwire resolves, and
\* halt() was called or a running task is about to call it, join() eventually
\* returns Ok.
C9_CooperativeShutdown ==
    (/\ jpc = "collect" /\ jtimeout = "none"
     /\ FirstReady # 0
     /\ \A t \in BeforeReady : kind[t] \in Cooperative
     /\ \/ ~haltSome
        \/ \E t \in TaskIds : kind[t] = "halter" /\ tstate[t] = "running")
        ~> jresult = "Ok"

\* join(None) returned Ok after a supervised task called halt() and a task
\* that was pending on its Tripwire returned
C9_Witness ==
    /\ jresult = "Ok"
    /\ jtimeout = "none"
    /\ haltCalls = 0 /\ ~haltSome
    /\ \E t \in BeforeReady : kind[t] = "tripwire" /\ tw[t] = "resolved"
    /\ \E t \in BeforeReady : kind[t] = "halter"

\* C10: halt idempotence.  However many times halt() is called, the trigger
\* is fired at most once and the joiner is notified at most once, exactly
\* once as soon as one call was made; and a call that finds the slot empty
\* changes nothing of the handle, the watch channel, the notification or the
\* task queue.
C10_HaltIdempotent ==
    /\ [](/\ fireCount <= 1
          /\ notifyCount <= 1
          /\ cellVersion <= 1
          /\ ~haltSome <=> (fireCount = 1 /\ notifyCount = 1 /\ cellValue))
    /\ [][(HaltStep /\ ~haltSome)
            => UNCHANGED <<haltSome, cellValue, cellVersion, senderAlive,
                           fireCount, permit, notifyCount, sent, rxAlive,
                           tasksSome, tw, rxVersion, jpc, jhead, jres,
                           jnotified, jresult>>]_vars

\* halt() was called once from outside and once by each of two tasks; the
\* trigger fired once and one notification was stored
C10_Witness ==
    /\ haltCalls = 1
    /\ \A t \in {1, 2} : kind[t] = "halter" /\ tstate[t] = "done"
    /\ fireCount = 1 /\ notifyCount = 1 /\ cellVersion = 1
    /\ ~haltSome


\* the Tripwire of task t has resolved
Resolved(t) == tw[t] \in {"resolved", "observed"}

\* what the next poll of the still unresolved Tripwire of task t returns
NextPoll(t) ==
    TripwirePoll(tw[t] \in Unpolled, rxVersion[t], cellValue, cellVersion,
                 senderAlive)

\* C11: trigger monotonicity.  A fired cell never returns to not-fired, no
\* Tripwire resolves before the cell is fired, and once one Tripwire has
\* resolved, the next poll of every other clone, cloned before or after the
\* firing, polled before or not, is Ready with no further call on the handle.
C11_TriggerMonotonic ==
    /\ [][cellValue => cellValue']_vars
    /\ []((\E t \in TaskIds : Resolved(t)) =>
            /\ cellValue
            /\ \A u \in TaskIds :
                  tw[u] \in Unpolled \cup {"pending"} => NextPoll(u).ready)

\* one clone resolved after having been pending, and a clone made after the
\* firing has not been polled yet
C11_Witness ==
    /\ kind[1] = "tripwire" /\ tw[1] = "resolved"
    /\ kind[2] = "tripwire" /\ tw[2] = "late"
    /\ cellValue /\ ~senderAlive

\* C12: no spurious cancellation.  While halt() has not been called, no
\* Tripwire has resolved, the next poll of every Tripwire is Pending, and no
\* task that only awaits its Tripwire has returned, whatever spawn(), ready()
\* and join() calls were made.
C12_NoSpuriousCancel ==
    haltSome =>
        \A t \in TaskIds :
            /\ ~Resolved(t)
            /\ tw[t] \in Unpolled \cup {"pending"} => ~NextPoll(t).ready
            /\ kind[t] = "tripwire" => tstate[t] # "done"

\* the task of halthandle_tripwire_bug: it polled its Tripwire, ready() was
\* called, join() runs, and the task is still pending
C12_Witness ==
    /\ haltSome
    /\ readyCalls >= 1
    /\ jpc = "collect"
    /\ \E t \in BeforeReady : kind[t] = "tripwire" /\ tw[t] = "pending" /\ tstate[t] = "running"


\* C13: join() is callable once.  The Tasks are in the handle exactly until
\* the first join() call, which takes them; from then on no call can take
\* them again, and every later call, made while the first one is pending or
\* after it returned, panics and leaves the handle, the queue and the first
\* call as they are.
C13_JoinOnce ==
    /\ [](tasksSome <=> jpc = "idle")
    /\ [](tasksSome => joinPanics = 0)
    /\ [](~tasksSome => ~ENABLED JoinCall)
    /\ [][joinPanics' # joinPanics => (~tasksSome /\ UNCHANGED hvars)]_vars

\* a second join() panicked while the first was still collecting
C13_Witness ==
    /\ joinPanics = 1
    /\ jpc = "collect" /\ jresult = "none"
    /\ jhead >= 1

\* C14: signal binding is installed at most once.  Over any number of
\* handle_signal() / halt_on_signal() calls exactly one signal task is
\* spawned and one closure built, by the call that finds the flag clear;
\* a call that finds the flag set changes nothing.
C14_SignalOnce ==
    /\ [](/\ sigTasks <= 1
          /\ signalCalls >= 1 <=> sigTasks = 1
          /\ signal_task_spawned <=> sigTasks = 1
          /\ sigpc # "none" <=> sigTasks = 1)
    /\ [][(signalCalls' # signalCalls /\ signal_task_spawned)
            => UNCHANGED <<signal_task_spawned, sigTasks, sigpc, hvars>>]_vars

\* two calls were made, one task was spawned, the signal arrived and its
\* closure halted the handle
C14_Witness ==
    /\ signalCalls = 2
    /\ sigTasks = 1
    /\ sigpc = "done"
    /\ ~haltSome /\ haltCalls = 0


-----------------------------------------------------------------------------
(* Properties of the acceptor's configuration.                             *)

\* C15: default acceptor policy.  An Acceptor whose require_proxy_header was
\* never set (Acceptor::new() / Acceptor::default(), as ProxyStream::new uses
\* it) requires the header: when accept_auto has run on a stream whose first
\* bytes match neither tag and the transport reported no I/O error, the
\* accept future has resolved to the 'required' error, never to a ProxyStream.
C15_DefaultRequiresHeader ==
    (origin = "default" /\ entry = "auto" /\ NoPrefix /\ pc # "prefix" /\ ~iofail)
        => (pc = "err" /\ errKind = "required")


\* the strategy the documented table gives for the configuration
StrategyTable ==
    CASE Len(versions) = 0 /\ ~require -> "skip"
      [] Len(versions) = 0 /\ require -> "panic"
      [] Len(versions) = 1 /\ require /\ versions[1] = "V1" -> "v1"
      [] Len(versions) = 1 /\ require /\ versions[1] = "V2" -> "v2"
      [] Len(versions) = 1 /\ ~require -> "auto"
      [] Len(versions) >= 2 -> "auto"

\* the codec auto-detection picks for the stream, "none" on the fall-through
DetectedCodec ==
    IF Take(Data, COMMON_HEADER_PREFIX_LEN) = Take(V1_TAG, COMMON_HEADER_PREFIX_LEN) THEN "v1"
    ELSE IF Take(Data, COMMON_HEADER_PREFIX_LEN) = Take(V2_TAG, COMMON_HEADER_PREFIX_LEN) THEN "v2"
    ELSE "none"

\* C16: AcceptorBuilder strategy selection is the documented table.  For
\* every ProtocolConfig the builder runs the strategy of the table, and the
\* strategy shows in what the built future does: skip reads nothing and
\* never fails, a single required version runs only that version's decoder
\* whatever the stream starts with, and auto-detect (one version not
\* required, or two or more versions) runs the decoder the stream's first
\* five bytes select, or none.
C16_StrategySelection ==
    origin = "builder" =>
        /\ entry = StrategyTable
        /\ StrategyTable = "skip" => (pos = 0 /\ buf = <<>> /\ codec = "none" /\ pc # "err")
        /\ StrategyTable = "v1" => (codec = "v1" /\ pc # "prefix")
        /\ StrategyTable = "v2" => (codec = "v2" /\ pc # "prefix")
        /\ StrategyTable = "auto" =>
              /\ codec \in {"none", DetectedCodec}
              /\ pc = "framed" => codec = DetectedCodec

\* a single required version ran its decoder on a stream of the other version
C16_Witness ==
    /\ origin = "builder" /\ versions = <<"V1">> /\ require
    /\ inp.h = HdrV2Tcp4 /\ pc = "err" /\ codec = "v1" /\ pos > 0

\* C17: an inconsistent configuration is rejected at build time.  With
\* require_proxy_header = true and an empty versions list AcceptorBuilder::new
\* panics: no builder exists, no byte of any stream is read and no stream is
\* ever accepted or refused by an acceptor.
C17_InconsistentConfigPanics ==
    (origin = "builder" /\ versions = <<>> /\ require) =>
        (entry = "panic" /\ pc = "panicked" /\ pos = 0 /\ buf = <<>>)

C17_Witness ==
    /\ origin = "builder" /\ versions = <<>> /\ require
    /\ pc = "panicked" /\ Len(Data) > 0


\* C20: safe unwrap.  try_into_inner on an accepted ProxyStream returns the
\* inner transport exactly when the carry is empty and the InvalidState
\* error exactly when the carry holds a byte; the call always returns one of
\* the two (it cannot panic), so the transport is never handed out while
\* carried payload bytes would be lost.
C20_SafeUnwrap ==
    /\ [](unwrapped \in {"none", "Ok", "InvalidState"})
    /\ [](unwrapped # "none" => pc = "ok")
    /\ [](unwrapped = "Ok" <=> (unwrapped # "none" /\ buf = <<>>))
    /\ [](unwrapped = "InvalidState" <=> (unwrapped # "none" /\ Len(buf) >= 1))
    /\ []((pc = "ok" /\ unwrapped = "none" /\ converted = "none") => ENABLED TryIntoInner)

\* a header followed by "HELLO" read in one chunk: the unwrap is refused
C20_Witness ==
    /\ unwrapped = "InvalidState" /\ pc = "ok"
    /\ inp.h = HdrV1Test /\ buf = <<72,69,76,76,79>> /\ orig_source # NoAddr


-----------------------------------------------------------------------------
(* Properties of the connector.                                            *)

\* C18: endpoint symmetry on encode.  write_proxy_header produces a header
\* (it reaches the write to the destination) if and only if both endpoints
\* are absent or both are present with the same address family; when
\* exactly one endpoint is present or the families differ it returns an
\* error and the destination stream has received no byte.
C18_EndpointSymmetry ==
    wpc # "call" =>
        /\ wpc \in {"Ok", "IoErr"} <=> WellFormed(original_source, original_destination)
        /\ wpc = "Err" <=> ~WellFormed(original_source, original_destination)
        /\ wpc = "Err" => written = <<>>
        /\ wpc = "Ok" =>
              \E n \in 0..Len(written) :
                  written = Take(HeaderData(protocol_version, original_source,
                                            original_destination).data, n)

\* a source without a destination: the call failed and wrote nothing
C18_Witness ==
    /\ wpc = "Err" /\ written = <<>>
    /\ original_source = Addr4(127, 0, 0, 1, 1111) /\ original_destination = NoAddr

\* C19: codec round-trip.  Whenever write_proxy_header of a version returned
\* Ok for a well-formed pair of endpoints and the acceptor of the same
\* version has finished on the bytes the destination received (its
\* transport reporting no I/O error), the acceptor produced a ProxyStream
\* whose original source and destination are the encoded ones and whose
\* carry is empty.
C19_RoundTrip ==
    (wpc = "Ok" /\ pc \notin {"idle", "framed"} /\ ~iofail) =>
        /\ pc = "ok"
        /\ orig_source = original_source
        /\ orig_destination = original_destination
        /\ buf = <<>>

\* the round trip when the destination took the whole header in the one write
RoundTripOfCompleteWrite ==
    (/\ wpc = "Ok" /\ pc \notin {"idle", "framed"} /\ ~iofail
     /\ written = HeaderData(protocol_version, original_source, original_destination).data) =>
        /\ pc = "ok"
        /\ orig_source = original_source
        /\ orig_destination = original_destination
        /\ buf = <<>>


-----------------------------------------------------------------------------
(* Properties of the handoff to the next layer.                            *)

\* C21: downstream handoff.  Each of the four conversions of a ProxyStream
\* into a framed form (into_framed_parts, From for FramedParts, From for
\* Framed, From for Connection) produces a read buffer equal to the carry,
\* byte for byte and in order, hands over the same transport with the same
\* bytes still to deliver, and reads nothing from the transport while it
\* converts.
C21_DownstreamHandoff ==
    /\ [](converted # "none" =>
            /\ converted \in Conversions
            /\ pc = "ok"
            /\ framed_parts.read_buf = buf
            /\ framed_parts.io = Unread)
    /\ [][converted' # converted =>
            /\ framed_parts'.read_buf = buf
            /\ framed_parts'.io = Unread
            /\ UNCHANGED pvars]_vars

\* a Connection made from a stream whose header and "HELLO" came in one chunk
C21_Witness ==
    /\ converted = "Connection" /\ inp.h = HdrV2Tcp4 /\ pos = Len(Data)
    /\ framed_parts.read_buf = <<72,69,76,76,79>> /\ framed_parts.io = <<>>


-----------------------------------------------------------------------------
(* Further properties of join().                                           *)

\* the place of task t's handle in the queue, 0 if it was never queued
QueuePos(t) ==
    IF \E i \in DOMAIN sent : sent[i].type = "Task" /\ sent[i].h = t
    THEN CHOOSE i \in DOMAIN sent : sent[i].type = "Task" /\ sent[i].h = t
    ELSE 0

\* the supervised tasks that have panicked
PanickedBeforeReady == {t \in BeforeReady : tstate[t] = "panicked"}

\* C22: first join error wins.  join() takes the queued handles one by one in
\* queue order; the join error it holds is that of a panicked task all of
\* whose predecessors in the queue returned normally, it is never replaced
\* by the error of a later task, and so Join(err) carries the error of the
\* panicked task that is earliest in the queue.
C22_FirstJoinErrorWins ==
    /\ [][jhead' = jhead \/ jhead' = jhead + 1]_vars
    /\ [][jres # 0 => jres' = jres]_vars
    /\ [](jres # 0 =>
            /\ tstate[jres] = "panicked"
            /\ QueuePos(jres) \in 1..jhead
            /\ \A i \in 1..(QueuePos(jres) - 1) :
                  sent[i].type = "Task" /\ tstate[sent[i].h] = "done")
    /\ [](jresult = "Join" =>
            /\ jres \in PanickedBeforeReady
            /\ \A t \in PanickedBeforeReady : QueuePos(jres) <= QueuePos(t))

\* two supervised tasks have panicked and join() reports the first one
C22_Witness ==
    /\ jresult = "Join" /\ jres = 1
    /\ PanickedBeforeReady = {1, 2}
    /\ QueuePos(1) < QueuePos(2)


-----------------------------------------------------------------------------
(* Further properties of the acceptor.                                     *)

\* what the decoder returns when framed.next() runs it on the buffer
DecoderResult == IF eof THEN DecodeEof(codec, buf) ELSE Decode(codec, buf)

\* accept_auto has picked a decoder and the decoder is about to fail
DecoderFails ==
    /\ entry = "auto" /\ pc = "framed" /\ readable
    /\ DecoderResult.tag = "err"

\* C23: tolerant auto-detect.  When accept_auto matched a 5-byte prefix and
\* the decoder it picked fails with an error, the error is not passed on:
\* with require_proxy_header = false the future resolves to a ProxyStream
\* without endpoints whose carry is every byte read from the transport so
\* far, with require_proxy_header = true it resolves to the 'required' error.
C23_TolerantAutoDetect ==
    /\ [](DecoderFails => (pc = "framed" /\ readable /\ codec \in {"v1", "v2"}))
    /\ [][(DecoderFails /\ pc' # pc) =>
            /\ pos' = pos
            /\ IF require
               THEN pc' = "err" /\ errKind' = "required"
               ELSE /\ pc' = "ok"
                    /\ orig_source' = NoAddr /\ orig_destination' = NoAddr
                    /\ buf' = Take(Data, pos)
                    /\ buf' \o Unread = Data]_vars

\* "PROXY TCP5 1.2.3.4 5.6.7.8 9 10\r\nA" was passed on whole
C23_Witness ==
    /\ entry = "auto" /\ ~require /\ pc = "ok" /\ codec = "v1" /\ ~iofail
    /\ inp.h = <<>> /\ StartsWith(inp.p, V1_TAG \o <<84,67,80,53>>)
    /\ orig_source = NoAddr /\ buf = Data


\* the decoder the first five buffered bytes select: "PROXY" for v1, the
\* first five bytes of the v2 signature for v2
PrefixCodec(b) ==
    IF Len(b) < 5 THEN "none"
    ELSE IF SubSeq(b, 1, 5) = <<80,82,79,88,89>> THEN "v1"
    ELSE IF SubSeq(b, 1, 5) = <<13,10,13,10,0>> THEN "v2"
    ELSE "none"

\* C24: auto-detect dispatch.  accept_auto runs no decoder while it reads the
\* prefix and leaves the prefix loop only with at least 5 buffered bytes or
\* at EOF.  It then runs the V1 decoder iff the first 5 buffered bytes are
\* those of "PROXY ", the V2 decoder iff they are those of the V2 signature,
\* and takes the fall-through path otherwise or with fewer than 5 bytes; the
\* chosen decoder starts from exactly the bytes already buffered.
C24_AutoDispatch ==
    /\ [](pc = "prefix" => (entry = "auto" /\ codec = "none" /\ buf = Take(Data, pos)))
    /\ [][(pc = "prefix" /\ pc' # "prefix" /\ ~iofail') =>
            /\ Len(buf) >= 5 \/ eof
            /\ codec' = PrefixCodec(buf)
            /\ buf' = buf /\ pos' = pos
            /\ IF PrefixCodec(buf) # "none"
               THEN pc' = "framed"
               ELSE /\ pc' = (IF require THEN "err" ELSE "ok")
                    /\ orig_source' = NoAddr /\ orig_destination' = NoAddr]_vars

\* the v2 decoder was started on a buffer holding more than the prefix
C24_Witness ==
    /\ entry = "auto" /\ pc = "framed" /\ codec = "v2" /\ inp.h = HdrV2Local
    /\ buf = Take(Data, pos) /\ Len(buf) > 5 /\ Unread # <<>>


-----------------------------------------------------------------------------
(* Further properties of the connector.                                    *)

\* C25: complete header write.  Whenever write_proxy_header has returned Ok,
\* the destination has received every byte of the encoded header, in order,
\* also when it takes fewer bytes per write call than the header is long.
C25_CompleteWrite ==
    wpc = "Ok" =>
        written = HeaderData(protocol_version, original_source, original_destination).data


-----------------------------------------------------------------------------
(* Further properties of the acceptor's configuration.                     *)

\* the builder was made with require_proxy_header = true and one version
VersionOnly == origin = "builder" /\ require /\ Len(versions) = 1

\* the decoder of the configured version
ConfiguredCodec == IF versions[1] = "V1" THEN "v1" ELSE "v2"

\* C26: version-restricted strategies pass no unproxied or other-version
\* traffic.  A builder with require_proxy_header = true and versions = {V1}
\* (resp. {V2}) resolves to a ProxyStream only for a stream that starts with
\* a valid header of that version, which has then been decoded and removed;
\* for a stream that starts with a valid header of the other version, with a
\* malformed header or with no header its future resolves to an error.
C26_VersionRestricted ==
    VersionOnly =>
        /\ pc \in {"framed", "ok", "err"}
        /\ codec = ConfiguredCodec
        /\ pc = "ok" =>
              /\ inp.h # <<>> /\ HdrVersion(inp.h) = ConfiguredCodec
              /\ buf \o Unread = inp.p
        /\ (pc # "framed" /\ (inp.h = <<>> \/ HdrVersion(inp.h) # ConfiguredCodec)) =>
              pc = "err"

\* a v2-only builder refused a stream that starts with a valid v1 header
C26_Witness ==
    /\ VersionOnly /\ versions = <<"V2">>
    /\ inp.h = HdrV1Tcp4 /\ pc = "err" /\ pos > 0 /\ ~iofail


\* the ProtocolConfig the builder was made from
Config == ProtocolConfig(require, versions)

\* C27: ProtocolConfig invariant.  Every ProtocolConfig value that has been
\* constructed satisfies: require_proxy_header = true implies versions is
\* non-empty.
C27_ConfigInvariant ==
    origin = "builder" =>
        (Config.require_proxy_header => Len(Config.versions) >= 1)

\* C27, amended: ProtocolConfig::new accepts any pair of values; the
\* invariant holds for the configuration of every AcceptorBuilder that
\* exists, because AcceptorBuilder::new panics on the inconsistent pair, and
\* a builder's configuration never changes.
C27_BuilderConfigInvariant ==
    /\ []((origin = "builder" /\ entry # "panic") =>
            (Config.require_proxy_header => Len(Config.versions) >= 1))
    /\ []((origin = "builder" /\ entry = "panic") =>
            (Config.require_proxy_header /\ Len(Config.versions) = 0 /\ pc = "panicked"))
    /\ [][origin = "builder" => UNCHANGED <<require, versions, entry>>]_vars

\* a builder that requires the header and lists both versions accepted a stream
C27_Witness ==
    /\ origin = "builder" /\ entry # "panic"
    /\ Config.require_proxy_header /\ Config.versions = <<"V1", "V2">>
    /\ pc = "ok" /\ orig_source # NoAddr


-----------------------------------------------------------------------------
(* Further properties of halt() and join().                                *)

\* the tasks whose future never looks at its Tripwire
Ignoring == {t \in TaskIds : kind[t] \in {"natural", "forever"}}

\* a call of halt() changes no task: only the caller, if it is a task, returns
HaltLeavesTasks ==
    [][HaltStep =>
        /\ kind' = kind /\ tw' = tw /\ rxVersion' = rxVersion
        /\ \A t \in TaskIds : tstate'[t] = tstate[t] \/ kind[t] = "halter"]_vars

\* a task that ignores its Tripwire ends only by returning, in a step of its own
IgnoringTasksRun ==
    /\ [](\A t \in TaskIds : (kind[t] = "forever" /\ tstate[t] # "unspawned")
                                => tstate[t] = "running")
    /\ [][\A t \in Ignoring : (tstate[t] = "running" /\ tstate'[t] # "running") =>
            /\ kind[t] = "natural" /\ tstate'[t] = "done"
            /\ UNCHANGED <<cellValue, cellVersion, senderAlive, haltSome, permit,
                           sent, jpc, jhead, jres, jresult>>]_vars

\* C28: cancellation does not abort tasks.  A call of halt() changes no
\* supervised task's state, a task that ignores its Tripwire runs until it
\* returns by itself, join(None) never returns Timeout, and join(None) has
\* not returned while a task that ignores its Tripwire and was queued before
\* Ready is unfinished.
C28_NoAbort ==
    /\ HaltLeavesTasks
    /\ IgnoringTasksRun
    /\ [](jtimeout = "none" => jresult # "Timeout")
    /\ []((jtimeout = "none" /\ jresult # "none") =>
            \A t \in Ignoring \cap BeforeReady : tstate[t] # "running")

\* C28, amended: as C28, but join(None) may return Join(err) while a task
\* that ignores its Tripwire is unfinished, namely when a task queued ahead
\* of it has panicked; it returns Ok only when every task queued before
\* Ready has ended.
C28_NoAbortUnlessJoinError ==
    /\ HaltLeavesTasks
    /\ IgnoringTasksRun
    /\ [](jtimeout = "none" => jresult # "Timeout")
    /\ []((jtimeout = "none" /\ jresult # "none") =>
            \A t \in Ignoring \cap BeforeReady :
                tstate[t] = "running" =>
                    /\ jresult = "Join"
                    /\ tstate[jres] = "panicked"
                    /\ QueuePos(jres) < QueuePos(t))

\* halt() was called, the "forever" task is still running, and join(None)
\* has returned the join error of the task queued ahead of it
C28_Witness ==
    /\ jtimeout = "none" /\ jresult = "Join" /\ jres = 1
    /\ haltCalls = 1 /\ cellValue
    /\ kind[2] = "forever" /\ tstate[2] = "running" /\ 2 \in BeforeReady


\* C29: short-circuit after a join error.  Once join() holds the error of a
\* panicked task it awaits no handle queued after it: the fold can always
\* take the next queued message, whatever the state of the task it names,
\* it keeps the error it holds, and when it takes Ready join() returns
\* Join(err), even if tasks queued after the panicked one never finish.
C29_ShortCircuit ==
    /\ []((jpc = "collect" /\ jres # 0 /\ jhead < Len(sent)) => ENABLED JoinRecv)
    /\ [][(jres # 0 /\ jhead' # jhead) =>
            /\ jhead' = jhead + 1
            /\ jres' = jres
            /\ UNCHANGED <<tstate, tw, cellValue, permit, jnotified>>
            /\ IF sent[jhead'].type = "Ready"
               THEN jpc' = "returned" /\ jresult' = "Join"
               ELSE jpc' = "collect" /\ jresult' = "none"]_vars

\* halt() was never called, the task queued after the panicked one never
\* finishes, and join() has returned the join error
C29_Witness ==
    /\ jresult = "Join" /\ jres = 1 /\ haltCalls = 0 /\ haltSome
    /\ kind[2] = "forever" /\ tstate[2] = "running" /\ QueuePos(2) = 2
    /\ FirstReady = 3 /\ jhead = 3


\* the tasks whose handle was queued behind the first Ready
LateSpawns == {t \in TaskIds : FirstReady # 0 /\ QueuePos(t) > FirstReady}

\* C30: late spawns are outside the barrier.  join() takes no message queued
\* behind the first Ready, so the handle of a task spawned after ready() is
\* never awaited: join()'s return does not wait for such a task, which may
\* still be running when join() returns Ok, and the join error join() holds
\* or returns is never that of such a task.
C30_LateSpawnsOutside ==
    /\ [](FirstReady # 0 => jhead <= FirstReady)
    /\ [](jres # 0 => jres \notin LateSpawns)
    /\ [][\A t \in LateSpawns : UNCHANGED <<jhead, jres, jresult>> \/ jhead' # QueuePos(t)]_vars
    /\ []((jpc = "collect" /\ FirstReady # 0 /\ jhead = FirstReady - 1) => ENABLED JoinRecv)

\* join() returned Ok although the task spawned after ready() has panicked
C30_Witness ==
    /\ jresult = "Ok" /\ jres = 0
    /\ LateSpawns = {2} /\ kind[2] = "panic" /\ tstate[2] = "panicked"
    /\ jhead = FirstReady


-----------------------------------------------------------------------------
(* Properties of the halt notification and of the Tripwire.                *)

\* the fold is, or will be, stuck on a never-finishing task queued before Ready
StuckOnForever ==
    \E t \in TaskIds :
        /\ kind[t] = "forever" /\ QueuePos(t) > jhead
        /\ FirstReady = 0 \/ QueuePos(t) < FirstReady

\* C31: no lost halt notification.  The notify wait of join() completes only
\* after halt() was called, and it does complete for every ordering of
\* halt() and join(): whenever join(Some(t)) is running and halt() has been
\* called, before or after join() started, join() eventually returns, and
\* with a never-finishing task queued before Ready it returns Timeout.
C31_NoLostNotification ==
    /\ [](jnotified => (~haltSome /\ notifyCount >= 1))
    /\ [](haltSome => (~permit /\ jresult # "Timeout"))
    /\ (jpc = "collect" /\ jtimeout = "some" /\ ~haltSome) ~> (jresult # "none")
    /\ (jpc = "collect" /\ jtimeout = "some" /\ ~haltSome /\ StuckOnForever)
          ~> (jresult = "Timeout")

\* halt() completed before join(Some) polled its notify wait: the permit is
\* stored while join() runs, blocked on a never-finishing task
C31_Witness ==
    /\ jpc = "collect" /\ jtimeout = "some" /\ ~jnotified /\ permit /\ ~haltSome
    /\ jhead = 0 /\ StuckOnForever /\ FirstReady # 0


\* C32: a Tripwire is permanently ready once resolved.  A Tripwire whose
\* poll returned Ready holds no receiver any more, every later poll of it
\* returns Ready, a clone made of it holds no receiver either, and the first
\* poll of such a clone returns Ready.
C32_PermanentlyReady ==
    /\ [](\A c \in TripwireIds : polled[c] = "Ready" => receiver[c] = "None")
    /\ [][\A c \in TripwireIds :
            (receiver[c] = "None" /\ polls'[c] # polls[c])
               => polled'[c] = "Ready"]_vars
    /\ [][\A c \in TripwireIds :
            (receiver[c] = "absent" /\ receiver'[c] # "absent"
             /\ cloned_from'[c] # 0 /\ polled[cloned_from'[c]] = "Ready")
               => receiver'[c] = "None"]_vars

\* a Tripwire resolved by the fired cell was polled three times; a clone made of it
\* after that was polled once
C32_Witness ==
    \E c, d \in TripwireIds :
        /\ c # d /\ cloned_from[d] = c
        /\ polls[c] = 3 /\ polled[c] = "Ready" /\ twSeen[c] # 0
        /\ wait_for_halt_future[d] = FALSE /\ twSeen[d] = 0
        /\ polls[d] = 1 /\ polled[d] = "Ready"


\* C36: dropping the Trigger without firing it releases the Tripwires.  Once
\* the Trigger (or the handle that still owns it) is dropped with halt()
\* never called, the cell is still false, yet the next poll of every
\* Tripwire, held by a task or not, polled before or not, is Ready, and the
\* task awaiting it finishes.
C36_DropReleases ==
    /\ [](Dropped =>
            /\ ~cellValue /\ haltCalls = 0
            /\ \A t \in TaskIds :
                 (kind[t] = "tripwire" /\ tstate[t] = "running") => NextPoll(t).ready)
    /\ [][Dropped =>
            /\ \A c \in TripwireIds : polls'[c] # polls[c] => polled'[c] = "Ready"
            /\ \A t \in TaskIds :
                 (tstate[t] = "running" /\ tw'[t] # tw[t]) => tstate'[t] = "done"]_vars

\* a task and a clone were Pending, the Trigger was dropped unfired, and both
\* resolved on their next poll
C36_Witness ==
    /\ Dropped /\ ~cellValue /\ cellVersion = 0
    /\ \E c \in TripwireIds : polls[c] = 2 /\ polled[c] = "Ready"
    /\ \E t \in TaskIds : kind[t] = "tripwire" /\ tstate[t] = "done"


C40_SendsNeverFail ==
    /\ [](jresult # "none" => (~rxAlive /\ ~tasksSome /\ jpc = "returned"))
    /\ []((jresult # "none" /\ Spawned # TaskIds) => ENABLED Spawn)
    /\ []((jresult # "none" /\ readyCalls < MaxReady) => ENABLED Ready)
    /\ [][~rxAlive =>
            /\ sent' = sent
            /\ \A t \in TaskIds :
                 (tstate[t] = "unspawned" /\ tstate'[t] # "unspawned")
                    => (tstate'[t] = "running" /\ QueuePos(t)' = 0)]_vars

\* join() returned Timeout with no Ready queued; afterwards a task was
\* spawned, which runs with its handle in no queue, and ready() was called
C40_Witness ==
    /\ jresult = "Timeout" /\ readyCalls = 1 /\ FirstReady = 0
    /\ \E t \in TaskIds : tstate[t] = "running" /\ QueuePos(t) = 0


-----------------------------------------------------------------------------
(* Further properties of the acceptor paths.                               *)

\* how far the accept future is from resolving: the phase, the bytes the
\* transport still holds, its EOF, and a decoder run that is due
AcceptRank ==
    IF pc \notin {"prefix", "framed"} THEN 0
    ELSE 1 + (IF pc = "prefix" THEN 1000 ELSE 0) + 8 * (Len(Data) - pos)
           + (IF eof THEN 0 ELSE 4) + (IF pc = "framed" /\ readable THEN 2 ELSE 0)

\* C37: auto-detect without a required header is total.  With
\* require_proxy_header = false, for every input, chunking and EOF position,
\* accept_auto fails only with the I/O error of a transport read, never with
\* 'Stream terminated', 'required' or a decoder error; and it does resolve:
\* while it is pending a step is always possible (a decoder run at EOF always
\* yields an item), and every step brings it closer to resolving.
C37_AutoDetectTotal ==
    /\ []((entry = "auto" /\ ~require /\ pc = "err") => (errKind = "io" /\ iofail))
    /\ []((entry = "auto" /\ ~require /\ pc = "framed") =>
            /\ readable \/ ~eof
            /\ (readable /\ eof) => DecoderResult.tag # "none")
    /\ [][(entry = "auto" /\ ~require /\ pc \in {"prefix", "framed"})
             => AcceptRank' < AcceptRank]_vars

\* the v2 header cut inside its address block met EOF after the prefix
\* matched and the stream was accepted with every byte in the carry
C37_Witness ==
    /\ entry = "auto" /\ ~require /\ pc = "ok" /\ ~iofail /\ eof
    /\ codec = "v2" /\ inp.h = <<>> /\ Len(Data) = 20
    /\ buf = Data /\ orig_source = NoAddr


\* C38: endpoint pairing of accepted streams.  Every ProxyStream an acceptor
\* path resolves to holds either both endpoints, of one address family, or
\* none, so proxy_info() of it is Ok and carries the two endpoints.
C38_EndpointPairing ==
    pc = "ok" =>
        /\ \/ orig_source = NoAddr /\ orig_destination = NoAddr
           \/ /\ orig_source # NoAddr /\ orig_destination # NoAddr
              /\ orig_source.fam = orig_destination.fam
        /\ ProxyInfoOf(orig_source, orig_destination).ok
        /\ ProxyInfoOf(orig_source, orig_destination).original_source = orig_source
        /\ ProxyInfoOf(orig_source, orig_destination).original_destination
              = orig_destination

\* a builder-made acceptor took the v2 INET6 header: both endpoints present
C38_Witness ==
    /\ pc = "ok" /\ origin = "builder" /\ inp.h = HdrV2Tcp6
    /\ orig_source # NoAddr /\ orig_destination # NoAddr
    /\ orig_source.fam = "v6" /\ orig_destination.fam = "v6"
    /\ orig_source # orig_destination


\* C39: the skip strategy touches nothing.  The future of build_skip resolves
\* at once to a ProxyStream with an empty carry and no endpoints; no byte was
\* read and no EOF or error seen, so the transport still holds the whole
\* stream, a valid PROXY header at its start included.
C39_SkipTouchesNothing ==
    /\ [](entry = "skip" =>
            /\ pc \in {"skip", "ok"}
            /\ pos = 0 /\ Unread = Data /\ ~eof /\ ~iofail /\ ~readable
            /\ buf = <<>> /\ orig_source = NoAddr /\ orig_destination = NoAddr)
    /\ [][pc = "skip" => pc' = "ok"]_vars

\* the stream starts with a valid v1 header and a payload; skip resolved and
\* the header is still in the transport
C39_Witness ==
    /\ entry = "skip" /\ pc = "ok" /\ origin = "builder"
    /\ inp.h = HdrV1Tcp4 /\ inp.p = <<72,69,76,76,79>>
    /\ buf = <<>> /\ Unread = inp.h \o inp.p


-----------------------------------------------------------------------------
(* Properties of the keytool.                                              *)

\* C33: key and certificate files are never overwritten.  No keytool command
\* changes the content of a file that exists; a key-generation command one
\* of whose target files exists returns an error, and so does a signing
\* command whose certificate file exists.
C33_NeverOverwritten ==
    /\ [][\A q \in Paths : files[q] # Absent => files'[q] = files[q]]_vars
    /\ [][(commands' # commands /\ kcmd'.name \in {"GenCAKey", "GenNoiseKey"}
           /\ (files[kcmd'.public_key_file] # Absent
               \/ files[kcmd'.secret_key_file] # Absent))
             => kresult' = "Err"]_vars
    /\ [][(commands' # commands /\ kcmd'.name = "SignKey"
           /\ files[SetExtensionCert(kcmd'.public_key_file)] # Absent)
             => kresult' = "Err"]_vars

\* GenCAKey wrote its public key and then failed on the secret key file,
\* which was there before and is as it was
C33_Witness ==
    /\ kcmd.name = "GenCAKey" /\ kresult = "Err" /\ commands = 1
    /\ kcmd.public_key_file = "a.key" /\ kcmd.secret_key_file = "b.key"
    /\ files["a.key"].t = "ed25519_public_key"
    /\ files["b.key"] = Other


-----------------------------------------------------------------------------
(* Properties of the noise authentication formats.                         *)

\* C34: the Debug output of a ServerSecurityBundle does not depend on its
\* secret key.  Two bundles with the same certificate, formatted at the same
\* time, give the same output whatever their secret keys; an output holds
\* the struct name, the Base58 text of the certificate authority key and the
\* expiry of the certificate (or the note that it is invalid), nothing else.
C34_DebugHidesSecret ==
    /\ (/\ debug_at[1] # -1 /\ debug_at[1] = debug_at[2]
        /\ bundle[1].certificate = bundle[2].certificate)
          => debug_out[1] = debug_out[2]
    /\ \A i \in 1..2 : debug_at[i] # -1 =>
          /\ debug_out[i].name = "ServerSecurityBundle"
          /\ debug_out[i].certificate_authority
                = Base58(bundle[i].certificate.authority_public_key)
          /\ debug_out[i].certificate_expiry
                \in {DecText(bundle[i].certificate.not_valid_after), InvalidText}
          /\ debug_out[i].secret_key = <<>>

\* two bundles with one valid certificate and different secret keys were
\* formatted in the same second: the outputs are equal and show the expiry
C34_Witness ==
    /\ bundle[1].certificate = bundle[2].certificate
    /\ bundle[1].secret_key # bundle[2].secret_key
    /\ debug_at[1] = 1 /\ debug_at[2] = 1
    /\ debug_out[1] = debug_out[2]
    /\ debug_out[1].certificate_expiry = DecText(2)

=============================================================================
